---------------------------- MODULE Spec2Model ----------------------------
(***************************************************************************)
(* A model of the radar flood-detection tool vw/tools/radar.h (the         *)
(* sar_martinis pipeline and its helpers).                                 *)
(*                                                                         *)
(* Real-valued quantities are kept exact: a rational is carried as an      *)
(* integer numerator over a stated denominator, and the Kittler-Illingworth*)
(* score J is carried by a strictly increasing function of it (see         *)
(* compute_kittler_illingworth_jt).  Floating-point rounding is not        *)
(* modelled.                                                               *)
(***************************************************************************)
EXTENDS Integers, Sequences, FiniteSets, TLC

VARIABLES
  ki_pc,          \* SpecKI: "off" | "input" | "done"
  ki_hist,        \* SpecKI: the histogram handed to split_histogram_kittler_illingworth
  ki_threshold,   \* SpecKI: the returned threshold, scaled by 2*num_bins
  gt_pc,          \* SpecThreshold: "off" | "input" | "done"
  gt_image,       \* SpecThreshold: the preprocessed image, one histogram per block
  gt_kept,        \* SpecThreshold: kept_tile_indices, a sequence of <<col, row>>
  gt_mean,        \* SpecThreshold: threshold_mean as [num, den], num scaled by 2*num_bins
  gt_ok,          \* SpecThreshold: the value compute_global_threshold returned
  sel_pc,         \* SpecSelect: "off" | "input" | "returned" | "thrown"
  sel_dims,       \* SpecSelect: [cols, rows] of the two tile tables
  tile_means,     \* SpecSelect: tile_means(c, r), a masked pixel [valid, value]
  tile_stddevs,   \* SpecSelect: tile_stddevs(c, r), a masked pixel [valid, value]
  sel_kept,       \* SpecSelect: kept_tile_indices, a sequence of <<col, row>>
  sel_ret,        \* SpecSelect: the count select_best_tiles returned
  sel_files,      \* SpecSelect: the debug rasters select_best_tiles wrote
  fz_pc,          \* SpecFuzzy: "off" | "input" | "done"
  fz_a, fz_b,     \* SpecFuzzy: the parameters (a, b) of the two functors
  fz_v,           \* SpecFuzzy: the input value
  fz_z, fz_s,     \* SpecFuzzy: Z(a,b)(v) and S(a,b)(v) as rationals [num, den]
  tm_pc,          \* SpecTiles: "off" | "writing" | "returned" (generate_tile_means)
  tm_size,        \* SpecTiles: [w, h], the size of the input image in pixels
  tm_image,       \* SpecTiles: the input image, block by block (see CropTile)
  tm_means,       \* SpecTiles: m_tile_means(col, row) of the generator
  tm_stddevs,     \* SpecTiles: m_tile_stddevs(col, row) of the generator
  tm_todo,        \* SpecTiles: the blocks block_write_gdal_image has yet to rasterize
  tm_log,         \* SpecTiles: the writes made so far, as [block, cell] records
  p_stage,        \* SpecPipeline: index of the current stage of sar_martinis
  p_status,       \* SpecPipeline: "off" | "idle" | "writing" | "failed" | "done"
  p_blocks,       \* SpecPipeline: blocks the running block write has yet to write
  p_files,        \* SpecPipeline: file -> "absent" | "partial" | "complete"
  p_reads,        \* SpecPipeline: the raster reads made, with the file's state
  p_started,      \* SpecPipeline: the names of the stages started, in order
  p_env,          \* SpecPipeline: which georeferences can be read
  dz_pc,          \* SpecDefuzz: "off" | "membership" | "defuzz" | "done_membership" | "done_defuzz"
  dz_args,        \* SpecDefuzz: the input of the functor applied
  dz_result,      \* SpecDefuzz: the pixel or pixels it returned
  dv_pc,          \* SpecDivide: "off" | "input" | "done"
  dv_args,        \* SpecDivide: [full_roi, size, include_partials]
  dv_result,      \* SpecDivide: [num_boxes, rois] as divide_roi left them
  fl_pc,          \* SpecFlood: "off" | "input" | "written" | "refilled"
  fl_defuzzed,    \* SpecFlood: the defuzzed raster, in hundredths, by cell
  fl_initial,     \* SpecFlood: initial_water_detect.tif by cell
  fl_fill,        \* SpecFlood: the raster two_threshold_fill returned
  fl_final,       \* SpecFlood: radar_final_output.tif by cell
  fl_again,       \* SpecFlood: two_threshold_fill applied to its own output
  bl_pc,          \* SpecBlobs: "off" | "input" | "written"
  bl_initial,     \* SpecBlobs: initial_water_detect.tif by cell
  bl_mpp,         \* SpecBlobs: input_meters_per_pixel
  bl_sizes,       \* SpecBlobs: blob_sizes.tif by cell
  pr_pc,          \* SpecPreprocess: "off" | "input" | "done"
  pr_nodata,      \* SpecPreprocess: has_input_nodata
  pr_dn,          \* SpecPreprocess: the median-filtered DN values of the cropped input
  pr_image,       \* SpecPreprocess: processed_image, masked pixels scaled by DbScale
  ex_pc,          \* SpecException: "off" | "live"
  ex_desc,        \* SpecException: m_desc, the string buffer and its put position
  ex_log,         \* SpecException: the calls made on the exception, in order
  pa_pc,          \* SpecProcedural: "off" | "live"
  pa_start,       \* SpecProcedural: the position (c0, r0, p0) the accessor was built at
  pa_acc,         \* SpecProcedural: the accessor, [m_c, m_r, m_p]
  pa_net,         \* SpecProcedural: the net displacement of the calls made, [c, r, p]
  pa_value,       \* SpecProcedural: what the last call returned if it was operator*
  ma_pc,          \* SpecMemory: "off" | "live"
  ma_args,        \* SpecMemory: [cstride, rstride, pstride, cols, rows, planes] of the constructor
  ma_acc,         \* SpecMemory: the accessor; pointers are offsets in pixels from the start of the storage
  ma_pos,         \* SpecMemory: the position (c, r, p) the calls made have moved to
  ma_result,      \* SpecMemory: "none" | "pixel" | "ArgumentErr", the outcome of the last operator*
  ax_pc,          \* SpecAxes: position in sar_martinis
  ax_size,        \* SpecAxes: size of the preprocessed image
  ax_image,       \* SpecAxes: the preprocessed image, block by block
  ax_boxes,       \* SpecAxes: large_tile_boxes
  ax_num_boxes,   \* SpecAxes: num_boxes_x and num_boxes_y
  ax_means,       \* SpecAxes: tile_means
  ax_stddevs,     \* SpecAxes: tile_stddevs
  ax_kept,        \* SpecAxes: kept_tile_indices
  ax_rois,        \* SpecAxes: the roi of each iteration of the aggregator
  ws_pc,          \* SpecWater: position in sar_martinis
  ws_initial,     \* SpecWater: initial_water_detect.tif
  ws_mpp,         \* SpecWater: input_meters_per_pixel
  ws_other,       \* SpecWater: the radar, height and slope scores
  ws_blob_sizes,  \* SpecWater: blob_sizes.tif
  ws_defuzzed,    \* SpecWater: the defuzzed raster
  ws_final,       \* SpecWater: radar_final_output.tif
  gr_pc,          \* SpecGrid: position in sar_martinis
  gr_size,        \* SpecGrid: size of the preprocessed image
  gr_tile_size,   \* SpecGrid: tile_size
  gr_boxes,       \* SpecGrid: large_tile_boxes
  gr_num_boxes,   \* SpecGrid: num_boxes_x and num_boxes_y
  gr_kept,        \* SpecGrid: kept_tile_indices
  gr_accesses     \* SpecGrid: the element accesses made to large_tile_boxes

kiVars == <<ki_pc, ki_hist, ki_threshold>>
gtVars == <<gt_pc, gt_image, gt_kept, gt_mean, gt_ok>>
selVars == <<sel_pc, sel_dims, tile_means, tile_stddevs, sel_kept, sel_ret, sel_files>>

fzVars == <<fz_pc, fz_a, fz_b, fz_v, fz_z, fz_s>>

tmVars == <<tm_pc, tm_size, tm_image, tm_means, tm_stddevs, tm_todo, tm_log>>

pVars == <<p_stage, p_status, p_blocks, p_files, p_reads, p_started, p_env>>

dzVars == <<dz_pc, dz_args, dz_result>>

dvVars == <<dv_pc, dv_args, dv_result>>

flVars == <<fl_pc, fl_defuzzed, fl_initial, fl_fill, fl_final, fl_again>>

blVars == <<bl_pc, bl_initial, bl_mpp, bl_sizes>>

prVars == <<pr_pc, pr_nodata, pr_dn, pr_image>>

exVars == <<ex_pc, ex_desc, ex_log>>

paVars == <<pa_pc, pa_start, pa_acc, pa_net, pa_value>>

maVars == <<ma_pc, ma_args, ma_acc, ma_pos, ma_result>>

axVars == <<ax_pc, ax_size, ax_image, ax_boxes, ax_num_boxes, ax_means, ax_stddevs, ax_kept, ax_rois>>

wsVars == <<ws_pc, ws_initial, ws_mpp, ws_other, ws_blob_sizes, ws_defuzzed, ws_final>>

grVars == <<gr_pc, gr_size, gr_tile_size, gr_boxes, gr_num_boxes, gr_kept, gr_accesses>>

vars == <<kiVars, gtVars, selVars, fzVars, tmVars, pVars, dzVars, dvVars, flVars, blVars, prVars, exVars, paVars, maVars, axVars, wsVars, grVars>>

\* A component that a specification does not exercise stays switched off.
KIOff == ki_pc = "off" /\ ki_hist = <<>> /\ ki_threshold = 0
GTOff == gt_pc = "off" /\ gt_image = <<>> /\ gt_kept = <<>>
         /\ gt_mean = [num |-> 0, den |-> 1] /\ gt_ok = FALSE
SelOff == sel_pc = "off" /\ sel_dims = [cols |-> 0, rows |-> 0]
          /\ tile_means = <<>> /\ tile_stddevs = <<>>
          /\ sel_kept = <<>> /\ sel_ret = 0 /\ sel_files = {}
TmOff == tm_pc = "off" /\ tm_size = [w |-> 0, h |-> 0] /\ tm_image = <<>>
         /\ tm_means = <<>> /\ tm_stddevs = <<>> /\ tm_todo = {} /\ tm_log = {}
PipeOff == p_stage = 0 /\ p_status = "off" /\ p_blocks = {} /\ p_files = <<>>
           /\ p_reads = {} /\ p_started = <<>> /\ p_env = <<>>
DzOff == dz_pc = "off" /\ dz_args = <<>> /\ dz_result = <<>>
DvOff == dv_pc = "off" /\ dv_args = <<>> /\ dv_result = <<>>
FlOff == fl_pc = "off" /\ fl_defuzzed = <<>> /\ fl_initial = <<>> /\ fl_fill = <<>> /\ fl_final = <<>> /\ fl_again = <<>>
BlOff == bl_pc = "off" /\ bl_initial = <<>> /\ bl_mpp = 0 /\ bl_sizes = <<>>
PrOff == pr_pc = "off" /\ pr_nodata = FALSE /\ pr_dn = <<>> /\ pr_image = <<>>
ExOff == ex_pc = "off" /\ ex_desc = <<>> /\ ex_log = <<>>
PaOff == pa_pc = "off" /\ pa_start = <<>> /\ pa_acc = <<>> /\ pa_net = <<>> /\ pa_value = <<>>
MaOff == ma_pc = "off" /\ ma_args = <<>> /\ ma_acc = <<>> /\ ma_pos = <<>> /\ ma_result = "none"
AxOff == ax_pc = "off" /\ ax_size = [w |-> 0, h |-> 0] /\ ax_image = <<>> /\ ax_boxes = <<>> /\ ax_num_boxes = [x |-> 0, y |-> 0] /\ ax_means = <<>> /\ ax_stddevs = <<>> /\ ax_kept = <<>> /\ ax_rois = <<>>
WsOff == ws_pc = "off" /\ ws_initial = <<>> /\ ws_mpp = 0 /\ ws_other = <<>> /\ ws_blob_sizes = <<>> /\ ws_defuzzed = <<>> /\ ws_final = <<>>
GrOff == gr_pc = "off" /\ gr_size = [w |-> 0, h |-> 0] /\ gr_tile_size = 0 /\ gr_boxes = <<>> /\ gr_num_boxes = [x |-> 0, y |-> 0] /\ gr_kept = <<>> /\ gr_accesses = {}
FzOff == fz_pc = "off" /\ fz_a = 0 /\ fz_b = 0 /\ fz_v = 0
         /\ fz_z = [num |-> 0, den |-> 1] /\ fz_s = [num |-> 0, den |-> 1]

---------------------------------------------------------------------------
(* Bounds of the model *)

\* Number of histogram bins (the code always passes num_bins = 255).
NumBins == 6
\* Largest bin count, and largest total count, of a histogram.
MaxPixels == 5

\* Side of a statistics tile in pixels (tile_size, 512 by default).
TileSize == 20
\* Number of whole tiles across and down the preprocessed image.
TileCols == 2
TileRows == 2
\* Number of tiles of the tile tables handed to the selector.
SelTiles == 8
\* The fuzzy parameters and inputs range over 0 .. FuzzyRange.
FuzzyRange == 5
\* Number of blocks of each raster the pipeline writes
PipelineBlocks == 2
\* The fuzzy scores fed to DefuzzFunctor are the multiples of 1/DefuzzLevels
DefuzzLevels == 4
\* The ROIs given to divide_roi: corner coordinates up to DivMaxCorner, width
\* and height up to DivMaxExtent, tile sizes up to DivMaxSize
DivMaxCorner == 2
DivMaxExtent == 5
DivMaxSize == 3

\* Program constants
PROC_MIN == 0
PROC_MAX == 400
MAX_NUM_TILES == 5
\* num_bins of the selector's histogram of tile stddevs
STDDEV_NUM_BINS == 255
\* TILE_STDDEV_PERCENTILE_CUTOFF = 0.95, in percent
TILE_STDDEV_PERCENTILE_CUTOFF == 95
\* MIN_PERCENT_VALID = 0.9, in tenths
MIN_PERCENT_VALID == 9
NUM_SUB_ROIS == 4

---------------------------------------------------------------------------
(* Arithmetic helpers *)

RECURSIVE SumOver(_, _, _)
\* f[lo] + ... + f[hi] for a sequence indexed from 1 (0 when lo > hi)
SumOver(f, lo, hi) == IF lo > hi THEN 0 ELSE f[lo] + SumOver(f, lo + 1, hi)

RECURSIVE RatLess(_, _, _, _)
\* a/b < c/d for a, c >= 0 and b, d > 0, by the continued-fraction expansion
\* (no product is formed, so nothing can leave TLC's integer range)
RatLess(a, b, c, d) ==
  LET qa == a \div b
      qc == c \div d
      ra == a % b
      rc == c % d
  IN IF qa # qc THEN qa < qc
     ELSE IF rc = 0 THEN FALSE
     ELSE IF ra = 0 THEN TRUE
     ELSE RatLess(d, rc, b, ra)

RECURSIVE GCD(_, _)
GCD(a, b) == IF b = 0 THEN a ELSE GCD(b, a % b)

Abs(a) == IF a < 0 THEN -a ELSE a

\* The rational n/d (d > 0) in lowest terms, as [num, den]
Rat(n, d) ==
  LET g == GCD(Abs(n), d) IN [num |-> n \div g, den |-> d \div g]

RatAdd(p, q) == Rat(p.num * q.den + q.num * p.den, p.den * q.den)
RatSub(p, q) == Rat(p.num * q.den - q.num * p.den, p.den * q.den)
RatMul(p, q) == Rat(p.num * q.num, p.den * q.den)
RatDivInt(p, k) == Rat(p.num, p.den * k)

RECURSIVE RatSum(_, _)
\* q[i] + ... + q[Len(q)] for a sequence of rationals
RatSum(q, i) == IF i > Len(q) THEN Rat(0, 1) ELSE RatAdd(q[i], RatSum(q, i + 1))

---------------------------------------------------------------------------
(* Kittler-Illingworth optimizer *)

\* The value of bin i (0-based) in units of bin_width above min_val:
\* bin_values[i] = min_val + i*bin_width.
BinValue(i) == i

\* histogram[i] of the code (0-based) is hist[i+1] here.
ClassCount(hist, lo, hi) == SumOver(hist, lo + 1, hi + 1)
ClassSum(hist, lo, hi) ==
  SumOver([i \in 1..Len(hist) |-> hist[i] * BinValue(i - 1)], lo + 1, hi + 1)
ClassSumSq(hist, lo, hi) ==
  SumOver([i \in 1..Len(hist) |-> hist[i] * BinValue(i - 1) * BinValue(i - 1)],
          lo + 1, hi + 1)

FAIL_VAL == [kind |-> "fail"]
NAN_VAL  == [kind |-> "nan"]

\* J(T) for the split after bin `bin` of the percentage histogram hist[i]/total.
\*   P_k      = n_k / total
\*   sigma_k  = (n_k*Q_k - S_k^2) / n_k^2            (in bin_width^2 units)
\*   J        = 1 + 2*(P1*ln(sigma1/P1) + P2*ln(sigma2/P2))
\* so exp(total*(J-1)/2) = total^total * A1^n1 * A2^n2 / (n1^(3 n1) * n2^(3 n2))
\* with A_k = n_k*Q_k - S_k^2.  total (and bin_width) are the same for every
\* bin of one histogram, so the rational num/den below orders the bins of a
\* histogram exactly as J does.  A real J is far below FAIL_VAL = 999999.
\* An empty histogram is normalised by 0/0: every P is NaN, both "<= 0" tests
\* are false and J is NaN.
compute_kittler_illingworth_jt(hist, total, num_bins, bin) ==
  IF total = 0 THEN NAN_VAL
  ELSE
    LET n1 == ClassCount(hist, 0, bin)
        n2 == ClassCount(hist, bin + 1, num_bins - 1)
        A1 == n1 * ClassSumSq(hist, 0, bin) - ClassSum(hist, 0, bin) ^ 2
        A2 == n2 * ClassSumSq(hist, bin + 1, num_bins - 1)
                 - ClassSum(hist, bin + 1, num_bins - 1) ^ 2
    IN IF (n1 <= 0) \/ (n2 <= 0) THEN FAIL_VAL
       ELSE IF (A1 <= 0) \/ (A2 <= 0) THEN FAIL_VAL
       ELSE [kind |-> "real",
             num  |-> (A1 ^ n1) * (A2 ^ n2),
             den  |-> (n1 ^ (3 * n1)) * (n2 ^ (3 * n2))]

\* s < t on scores, as the C++ "<" on doubles decides it
ScoreLess(s, t) ==
  IF s.kind = "nan" \/ t.kind = "nan" THEN FALSE
  ELSE IF s.kind = "fail" THEN FALSE
  ELSE IF t.kind = "fail" THEN TRUE
  ELSE RatLess(s.num, s.den, t.num, t.den)

\* scores[i] = J(i+1), i = 0 .. num_bins-2 (kept 1-based: Scores(..)[i+1])
Scores(hist, num_bins) ==
  [k \in 1..(num_bins - 1) |->
     compute_kittler_illingworth_jt(hist, SumOver(hist, 1, num_bins), num_bins, k)]

RECURSIVE FindLowestScore(_, _, _, _, _)
\* The "find the lowest score" loop: min_index after iterations i .. num_bins-2
FindLowestScore(scores, num_bins, i, min_score, min_index) ==
  IF i >= num_bins - 1 THEN min_index
  ELSE IF ScoreLess(scores[i + 1], min_score)
       THEN FindLowestScore(scores, num_bins, i + 1, scores[i + 1], i + 1)
       ELSE FindLowestScore(scores, num_bins, i + 1, min_score, min_index)

\* min_index as the function leaves it: min_score = scores[0], min_index = 0
MinIndex(hist, num_bins) ==
  LET scores == Scores(hist, num_bins)
  IN FindLowestScore(scores, num_bins, 0, scores[1], 0)

\* The returned threshold min_val + bin_width*(min_index - 0.5), scaled by
\* 2*num_bins so that it is an integer:
\*   2*num_bins*threshold = 2*num_bins*min_val + (max_val-min_val)*(2*min_index-1)
split_histogram_kittler_illingworth(hist, num_bins, min_val, max_val) ==
  2 * num_bins * min_val + (max_val - min_val) * (2 * MinIndex(hist, num_bins) - 1)

---------------------------------------------------------------------------
(* SpecKI: the optimizer applied to every histogram within the bounds *)

RECURSIVE HistogramsOf(_, _)
\* all count vectors of the given length whose counts add up to at most `room`
HistogramsOf(len, room) ==
  IF len = 0 THEN {<<>>}
  ELSE UNION {{Append(h, c) : c \in 0..(room - SumOver(h, 1, len - 1))} :
              h \in HistogramsOf(len - 1, room)}

Histograms == HistogramsOf(NumBins, MaxPixels)

InitKI ==
  /\ ki_pc = "input"
  /\ ki_hist \in Histograms
  /\ ki_threshold = 0
  /\ GTOff /\ SelOff /\ FzOff /\ TmOff /\ PipeOff /\ DzOff /\ DvOff /\ FlOff /\ BlOff /\ PrOff /\ ExOff /\ PaOff /\ MaOff /\ AxOff /\ WsOff /\ GrOff

SplitHistogram ==
  /\ ki_pc = "input"
  /\ ki_threshold' =
       split_histogram_kittler_illingworth(ki_hist, NumBins, PROC_MIN, PROC_MAX)
  /\ ki_pc' = "done"
  /\ UNCHANGED <<ki_hist, gtVars, selVars, fzVars, tmVars, pVars, dzVars, dvVars, flVars, blVars, prVars, exVars, paVars, maVars, axVars, wsVars, grVars>>

NextKI == SplitHistogram

SpecKI == InitKI /\ [][NextKI]_vars

---------------------------------------------------------------------------
(* Tile grid *)

\* BBox2i(x, y, width, height); max() is the corner (x + w, y + h).
BBox2i(x, y, width, height) == [x |-> x, y |-> y, w |-> width, h |-> height]

CeilDiv(a, b)  == (a + b - 1) \div b
FloorDiv(a, b) == a \div b

\* Variant of DivideBox that does not clip the boxes at the edges.
DivideBox_Unclipped(full_roi, size, r, c) == BBox2i(c * size, r * size, size, size)

\* One box of the grid, "being mindful of partial boxes at the edges"
DivideBox(full_roi, size, r, c) ==
  LET max_x == full_roi.x + full_roi.w
      max_y == full_roi.y + full_roi.h
      x == c * size
      y == r * size
      height == IF y + size > max_y THEN max_y - y ELSE size
      width  == IF x + size > max_x THEN max_x - x ELSE size
  IN BBox2i(x, y, width, height)

\* divide_roi: new_rois[r][c] (0-based in the code) is rois[r+1][c+1] here.
divide_roi(full_roi, size, include_partials) ==
  LET num_boxes_x == IF include_partials THEN CeilDiv(full_roi.w, size)
                                         ELSE FloorDiv(full_roi.w, size)
      num_boxes_y == IF include_partials THEN CeilDiv(full_roi.h, size)
                                         ELSE FloorDiv(full_roi.h, size)
  IN [num_boxes |-> num_boxes_y * num_boxes_x,
      rois |-> [r \in 1..num_boxes_y |->
                  [c \in 1..num_boxes_x |-> DivideBox(full_roi, size, r - 1, c - 1)]]]

---------------------------------------------------------------------------
(* Global threshold aggregator *)

\* The preprocessed image of SpecThreshold is described block by block:
\* image[<<bx, by>>] is the histogram (num_bins bins over [global_min,
\* global_max]) of the valid pixels of the block with origin
\* (bx*TileSize, by*TileSize).  One column of pixels is left over on the right.
ImageWidth  == TileCols * TileSize + 1
ImageHeight == TileRows * TileSize
Blocks == (0..(TileCols - 1)) \X (0..(TileRows - 1))

\* histogram(crop(preprocessed_image, roi), num_bins, dmin, dmax, hist) for a
\* roi that is one whole block of the image
HistogramOfCrop(image, roi) == image[<<roi.x \div TileSize, roi.y \div TileSize>>]

\* The roi of iteration i of the aggregator's loop:
\*   tile_index = kept_tile_indices[i];
\*   roi = large_tile_boxes[tile_index[1]][tile_index[0]]  ("stored row-first")
\* (a Vector2i is a pair here, so tile_index[0] of the code is tile_index[1])
KeptTileRoi(kept_tile_indices, large_tile_boxes, i) ==
  LET tile_index == kept_tile_indices[i + 1]
  IN large_tile_boxes[tile_index[2] + 1][tile_index[1] + 1]

RECURSIVE ThresholdSum(_, _, _, _, _, _)
\* what the iterations i .. num_tiles-1 of the loop add to threshold_mean
ThresholdSum(image, kept_tile_indices, large_tile_boxes, global_min, global_max, i) ==
  IF i >= Len(kept_tile_indices) THEN 0
  ELSE LET roi  == KeptTileRoi(kept_tile_indices, large_tile_boxes, i)
           hist == HistogramOfCrop(image, roi)
       IN split_histogram_kittler_illingworth(hist, NumBins, global_min, global_max)
          + ThresholdSum(image, kept_tile_indices, large_tile_boxes,
                         global_min, global_max, i + 1)

\* Variant of compute_global_threshold that enforces the paper's quality gate
\* (rejecting a list of tile thresholds that are not all alike).
compute_global_threshold_Gated(image, kept_tile_indices, large_tile_boxes, global_min, global_max) ==
  LET n == Len(kept_tile_indices)
      thr(i) == split_histogram_kittler_illingworth(
                  HistogramOfCrop(image,
                    large_tile_boxes[kept_tile_indices[i][2] + 1][kept_tile_indices[i][1] + 1]),
                  NumBins, global_min, global_max)
  IN [ok |-> \A i, j \in 1..n : thr(i) = thr(j),
      threshold_mean |->
        [num |-> ThresholdSum(image, kept_tile_indices, large_tile_boxes,
                              global_min, global_max, 0),
         den |-> n]]

\* compute_global_threshold: the returned flag and threshold_mean, the sum of
\* the per-tile thresholds over num_tiles (thresholds scaled by 2*num_bins)
compute_global_threshold(image, kept_tile_indices, large_tile_boxes, global_min, global_max) ==
  [ok |-> TRUE,
   threshold_mean |->
     [num |-> ThresholdSum(image, kept_tile_indices, large_tile_boxes,
                           global_min, global_max, 0),
      den |-> Len(kept_tile_indices)]]

---------------------------------------------------------------------------
(* SpecThreshold: the aggregator on every image and kept-tile list in bounds *)

\* A tile with a single occupied bin: every split scores FAIL_VAL.
HistOneBin == [i \in 1..NumBins |-> IF i = 3 THEN 3 ELSE 0]
\* A tile with two separated pairs of bins: the only scoring split is bin 2.
HistTwoModes == [i \in 1..NumBins |-> IF i \in {1, 3, 4, 5} THEN 1 ELSE 0]
HistogramPalette == {HistOneBin, HistTwoModes}

ScanKey(t) == t[2] * TileCols + t[1]

RECURSIVE ScanOrder(_)
\* the tiles of a set in the order the selector's row/column scan meets them
ScanOrder(S) ==
  IF S = {} THEN <<>>
  ELSE LET first == CHOOSE t \in S : \A u \in S : ScanKey(t) <= ScanKey(u)
       IN <<first>> \o ScanOrder(S \ {first})

KeptLists ==
  {ScanOrder(S) : S \in {T \in SUBSET Blocks : Cardinality(T) \in 1..MAX_NUM_TILES}}

\* The images in which at most one block differs from all the others
Images ==
  {img \in [Blocks -> HistogramPalette] :
     \E h \in HistogramPalette : Cardinality({b \in Blocks : img[b] # h}) <= 1}

InitThreshold ==
  /\ gt_pc = "input"
  /\ gt_image \in Images
  /\ gt_kept \in KeptLists
  /\ gt_mean = [num |-> 0, den |-> 1]
  /\ gt_ok = FALSE
  /\ KIOff /\ SelOff /\ FzOff /\ TmOff /\ PipeOff /\ DzOff /\ DvOff /\ FlOff /\ BlOff /\ PrOff /\ ExOff /\ PaOff /\ MaOff /\ AxOff /\ WsOff /\ GrOff

ComputeGlobalThreshold ==
  /\ gt_pc = "input"
  /\ LET large_tile_boxes ==
           divide_roi(BBox2i(0, 0, ImageWidth, ImageHeight), TileSize, FALSE).rois
         res == compute_global_threshold(gt_image, gt_kept, large_tile_boxes,
                                         PROC_MIN, PROC_MAX)
     IN /\ gt_mean' = res.threshold_mean
        /\ gt_ok' = res.ok
  /\ gt_pc' = "done"
  /\ UNCHANGED <<gt_image, gt_kept, kiVars, selVars, fzVars, tmVars, pVars, dzVars, dvVars, flVars, blVars, prVars, exVars, paVars, maVars, axVars, wsVars, grVars>>

NextThreshold == ComputeGlobalThreshold

SpecThreshold == InitThreshold /\ [][NextThreshold]_vars

---------------------------------------------------------------------------
(* Properties of the Kittler-Illingworth optimizer and of the aggregator *)

\* The lowest-index candidate split bin t (candidates are 1 .. num_bins-1)
\* whose score no other candidate's score is below.
ArgMinBin(hist, num_bins) ==
  LET scores == Scores(hist, num_bins)
      Minimal(t) == \A u \in 1..(num_bins - 1) : ~ScoreLess(scores[u], scores[t])
  IN CHOOSE t \in 1..(num_bins - 1) :
       Minimal(t) /\ \A u \in 1..(t - 1) : ~Minimal(u)

ThresholdOfBin(t, num_bins, min_val, max_val) ==
  2 * num_bins * min_val + (max_val - min_val) * (2 * t - 1)

\* C2: split_histogram_kittler_illingworth returns min_val + bin_width*(t* - 0.5)
\* for the lowest-index candidate bin t* >= 1 of minimal score, for every
\* histogram, so the result is never below min_val + bin_width/2.
C2_ThresholdAtArgMin ==
  ki_pc = "done" =>
    /\ ki_threshold =
         ThresholdOfBin(ArgMinBin(ki_hist, NumBins), NumBins, PROC_MIN, PROC_MAX)
    /\ ki_threshold >= ThresholdOfBin(1, NumBins, PROC_MIN, PROC_MAX)

\* Every candidate bin of the histogram scores the fail sentinel (or NaN, for
\* an empty histogram): no split has a score.
AllScoresFail(hist) ==
  \A k \in 1..(NumBins - 1) : Scores(hist, NumBins)[k].kind # "real"

\* The threshold the optimizer returns for kept tile i, a tile (col, row),
\* read from the image block whose origin is (col*TileSize, row*TileSize).
KeptTileHist(i) == gt_image[<<gt_kept[i][1], gt_kept[i][2]>>]
KeptTileThreshold(i) ==
  split_histogram_kittler_illingworth(KeptTileHist(i), NumBins, PROC_MIN, PROC_MAX)

\* C5: a kept tile whose every candidate bin fails contributes no threshold to
\* the mean, and when every kept tile is such a tile compute_global_threshold
\* reports an error instead of returning a threshold.
C5_FailedTilesContributeNothing ==
  gt_pc = "done" =>
    LET n == Len(gt_kept)
        contributes == [i \in 1..n |-> IF AllScoresFail(KeptTileHist(i)) THEN 0 ELSE 1]
        thresholds  == [i \in 1..n |-> IF AllScoresFail(KeptTileHist(i)) THEN 0
                                       ELSE KeptTileThreshold(i)]
    IN IF SumOver(contributes, 1, n) = 0
       THEN gt_ok = FALSE
       ELSE gt_ok = TRUE
            /\ gt_mean.num * SumOver(contributes, 1, n)
                 = gt_mean.den * SumOver(thresholds, 1, n)

\* C6: for a non-empty kept list threshold_mean is the arithmetic mean of the
\* per-tile thresholds, each taken over the image block of the kept tile
\* (col, row), and the function returns true whatever their spread.
C6_MeanOfTileThresholds ==
  gt_pc = "done" =>
    LET n == Len(gt_kept)
    IN /\ gt_ok = TRUE
       /\ gt_mean.den = n
       /\ gt_mean.num = SumOver([i \in 1..n |-> KeptTileThreshold(i)], 1, n)

\* C6 witness: several kept tiles whose thresholds differ, one of them off the
\* diagonal of the grid with a transposed block of different content.
C6_Witness ==
  /\ gt_pc = "done"
  /\ \E i, j \in 1..Len(gt_kept) : KeptTileThreshold(i) # KeptTileThreshold(j)
  /\ \E i \in 1..Len(gt_kept) :
       /\ gt_kept[i][1] # gt_kept[i][2]
       /\ gt_image[<<gt_kept[i][2], gt_kept[i][1]>>] # KeptTileHist(i)

---------------------------------------------------------------------------
(* Tile selector *)

\* A PixelMask<float>: a default-constructed or invalidated pixel is invalid
\* and holds 0; read as a number it yields its value, valid or not.
MaskedPixel(v) == [valid |-> TRUE, value |-> v]
InvalidPixel   == [valid |-> FALSE, value |-> 0]

TableCells(img) == DOMAIN img
ValidCells(img) == {t \in DOMAIN img : img[t].valid}

RECURSIVE SumCells(_, _)
SumCells(img, S) ==
  IF S = {} THEN 0
  ELSE LET t == CHOOSE u \in S : TRUE IN img[t].value + SumCells(img, S \ {t})

\* mean_channel_value: the mean of the valid pixels, as the rational num/den
mean_channel_value(img) ==
  [num |-> SumCells(img, ValidCells(img)), den |-> Cardinality(ValidCells(img))]

\* find_image_min_max: the least and greatest valid pixel
find_image_min_max(img) ==
  [min |-> CHOOSE v \in {img[t].value : t \in ValidCells(img)} :
             \A t \in ValidCells(img) : v <= img[t].value,
   max |-> CHOOSE v \in {img[t].value : t \in ValidCells(img)} :
             \A t \in ValidCells(img) : v >= img[t].value]

\* The bin of value v: bin i covers [min + i*w, min + (i+1)*w), the last bin
\* is closed on both ends; w = (max - min)/num_bins.
BinOf(v, num_bins, min_val, max_val) ==
  IF max_val = min_val THEN 0
  ELSE IF v >= max_val THEN num_bins - 1
  ELSE ((v - min_val) * num_bins) \div (max_val - min_val)

\* histogram: counts of the valid pixels per bin.  The vector of num_bins
\* counts is kept sparse: counts[b] for the occupied bins b (0-based), every
\* other bin holds 0.
histogram(img, num_bins, min_val, max_val) ==
  LET bin(t) == BinOf(img[t].value, num_bins, min_val, max_val)
  IN [num_bins |-> num_bins,
      counts |-> [b \in {bin(t) : t \in ValidCells(img)} |->
                    Cardinality({t \in ValidCells(img) : bin(t) = b})]]

RECURSIVE SumCounts(_, _)
\* the total count of the bins S of a histogram
SumCounts(hist, S) ==
  IF S = {} THEN 0
  ELSE LET b == CHOOSE c \in S : TRUE IN hist.counts[b] + SumCounts(hist, S \ {b})

\* get_histogram_percentile: the smallest bin b such that the mass of the
\* bins 0..b is at least percent/100 of the total (the mass only grows at an
\* occupied bin, so that bin is an occupied one)
get_histogram_percentile(hist, percent) ==
  LET occupied  == DOMAIN hist.counts
      MassTo(b) == SumCounts(hist, {c \in occupied : c <= b})
      total     == SumCounts(hist, occupied)
      reached   == {b \in occupied : MassTo(b) * 100 >= percent * total}
  IN IF reached = {} THEN hist.num_bins - 1
     ELSE CHOOSE b \in reached : \A c \in reached : b <= c

\* std_dev_cutoff = stddev_min + bin_width*bin, times num_bins
StdDevCutoff(stddevs) ==
  LET mm  == find_image_min_max(stddevs)
      bin == get_histogram_percentile(
               histogram(stddevs, STDDEV_NUM_BINS, mm.min, mm.max),
               TILE_STDDEV_PERCENTILE_CUTOFF)
  IN STDDEV_NUM_BINS * mm.min + (mm.max - mm.min) * bin

\* Variant of PassesFilter: a stddev equal to the cutoff passes
PassesFilter_NotStrict(means, stddevs, global_mean, std_dev_cutoff, t) ==
  /\ stddevs[t].value * STDDEV_NUM_BINS >= std_dev_cutoff
  /\ means[t].value * global_mean.den < global_mean.num

\* The test of the tile loop: a high stddev and a mean below the global mean
\*   tile_stddevs(c,r) > std_dev_cutoff && tile_means(c,r) < global_mean
\* (global_mean a rational num/den, std_dev_cutoff scaled by num_bins)
PassesFilter(means, stddevs, global_mean, std_dev_cutoff, t) ==
  /\ stddevs[t].value * STDDEV_NUM_BINS > std_dev_cutoff
  /\ means[t].value * global_mean.den < global_mean.num

\* The cells of a cols x rows table in the order of the loops
\*   for r in 0..rows-1: for c in 0..cols-1
ScanSeq(cols, rows) ==
  [k \in 1..(cols * rows) |-> <<(k - 1) % cols, (k - 1) \div cols>>]

\* n_prime_tiles: the tiles that pass, in the order the loops meet them
NPrimeTiles(dims, means, stddevs) ==
  LET global_mean    == mean_channel_value(means)
      std_dev_cutoff == StdDevCutoff(stddevs)
  IN SelectSeq(ScanSeq(dims.cols, dims.rows),
               LAMBDA t : PassesFilter(means, stddevs, global_mean, std_dev_cutoff, t))

\* sort_vector_indices: indices (0-based) that put v in ascending order;
\* std::sort leaves the order of equal elements open
sort_vector_indices(v) ==
  CHOOSE p \in [1..Len(v) -> 0..(Len(v) - 1)] :
    /\ \A i, j \in 1..Len(v) : i # j => p[i] # p[j]
    /\ \A i \in 1..(Len(v) - 1) : v[p[i] + 1] <= v[p[i + 1] + 1]

\* Variant of select_best_tiles whose capping test is < and whose capping loop
\* starts one element early.
select_best_tiles_OffByOne(dims, means, stddevs) ==
  LET n_prime_tiles == NPrimeTiles(dims, means, stddevs)
      num_tiles_kept == Len(n_prime_tiles)
  IN IF num_tiles_kept = 0
     THEN [thrown |-> TRUE, kept |-> <<>>, ret |-> 0,
           files |-> {"initial_kept_tiles.tif"}]
     ELSE IF num_tiles_kept < MAX_NUM_TILES
     THEN [thrown |-> FALSE, kept |-> n_prime_tiles, ret |-> num_tiles_kept,
           files |-> {"initial_kept_tiles.tif"}]
     ELSE [thrown |-> FALSE,
           kept |-> [k \in 1..MAX_NUM_TILES |->
                       IF num_tiles_kept - k >= 1
                       THEN n_prime_tiles[num_tiles_kept - k]
                       ELSE n_prime_tiles[1]],
           ret |-> MAX_NUM_TILES,
           files |-> {"initial_kept_tiles.tif", "final_kept_tiles.tif"}]

\* Variant of select_best_tiles that returns an empty list instead of throwing.
select_best_tiles_NoThrow(dims, means, stddevs) ==
  LET n_prime_tiles == NPrimeTiles(dims, means, stddevs)
      num_tiles_kept == Len(n_prime_tiles)
      max_index == num_tiles_kept - 1
  IN IF num_tiles_kept <= MAX_NUM_TILES
     THEN [thrown |-> FALSE, kept |-> n_prime_tiles, ret |-> num_tiles_kept,
           files |-> {"initial_kept_tiles.tif"}]
     ELSE [thrown |-> FALSE,
           kept |-> [k \in 1..MAX_NUM_TILES |-> n_prime_tiles[(max_index - (k - 1)) + 1]],
           ret |-> MAX_NUM_TILES,
           files |-> {"initial_kept_tiles.tif", "final_kept_tiles.tif"}]

\* select_best_tiles: whether it threw LogicErr, kept_tile_indices, the
\* returned count and the debug rasters written.
\* n_prime_tiles[i] of the code is n_prime_tiles[i+1] here; the capping loop
\* runs i = max_index, max_index-1, ..., max_index-MAX_NUM_TILES+1 and copies
\* n_prime_tiles[i]; the sorted `indices` are computed and not read.
select_best_tiles(dims, means, stddevs) ==
  LET n_prime_tiles == NPrimeTiles(dims, means, stddevs)
      n_prime_std_dev ==
        [k \in 1..Len(n_prime_tiles) |-> stddevs[n_prime_tiles[k]].value]
      num_tiles_kept == Len(n_prime_tiles)
      indices == sort_vector_indices(n_prime_std_dev)
      max_index == num_tiles_kept - 1
  IN IF num_tiles_kept = 0
     THEN [thrown |-> TRUE, kept |-> <<>>, ret |-> 0,
           files |-> {"initial_kept_tiles.tif"}]
     ELSE IF num_tiles_kept <= MAX_NUM_TILES
     THEN [thrown |-> FALSE, kept |-> n_prime_tiles, ret |-> num_tiles_kept,
           files |-> {"initial_kept_tiles.tif"}]
     ELSE [thrown |-> FALSE,
           kept |-> [k \in 1..MAX_NUM_TILES |-> n_prime_tiles[(max_index - (k - 1)) + 1]],
           ret |-> MAX_NUM_TILES,
           files |-> {"initial_kept_tiles.tif", "final_kept_tiles.tif"}]

---------------------------------------------------------------------------
(* SpecSelect: the selector on every pair of tile tables within the bounds *)

\* The statistics a tile of the tables may hold (mean, stddev of sub-means),
\* in fixed-point units: a flat bright tile and two dark tiles of high and
\* slightly different heterogeneity.
TileKinds ==
  { [mean |-> MaskedPixel(9),  stddev |-> MaskedPixel(0)],
    [mean |-> MaskedPixel(2),  stddev |-> MaskedPixel(1000)],
    [mean |-> MaskedPixel(2),  stddev |-> MaskedPixel(999)] }

\* The table shapes with SelTiles tiles
TableShapes ==
  {d \in [cols : 1..SelTiles, rows : 1..SelTiles] : d.cols * d.rows = SelTiles}

CellsOf(d) == (0..(d.cols - 1)) \X (0..(d.rows - 1))

InitSelect ==
  /\ sel_pc = "input"
  /\ sel_dims \in TableShapes
  /\ \E kinds \in {k \in [CellsOf(sel_dims) -> TileKinds] :
                     \E t \in CellsOf(sel_dims) : k[t].mean.valid} :
       /\ tile_means   = [t \in CellsOf(sel_dims) |-> kinds[t].mean]
       /\ tile_stddevs = [t \in CellsOf(sel_dims) |-> kinds[t].stddev]
  /\ sel_kept = <<>>
  /\ sel_ret = 0
  /\ sel_files = {}
  /\ KIOff /\ GTOff /\ FzOff /\ TmOff /\ PipeOff /\ DzOff /\ DvOff /\ FlOff /\ BlOff /\ PrOff /\ ExOff /\ PaOff /\ MaOff /\ AxOff /\ WsOff /\ GrOff

SelectBestTiles ==
  /\ sel_pc = "input"
  /\ LET res == select_best_tiles(sel_dims, tile_means, tile_stddevs)
     IN /\ sel_pc' = IF res.thrown THEN "thrown" ELSE "returned"
        /\ sel_kept' = res.kept
        /\ sel_ret' = res.ret
        /\ sel_files' = res.files
  /\ UNCHANGED <<sel_dims, tile_means, tile_stddevs, kiVars, gtVars, fzVars, tmVars, pVars, dzVars, dvVars, flVars, blVars, prVars, exVars, paVars, maVars, axVars, wsVars, grVars>>

NextSelect == SelectBestTiles

SpecSelect == InitSelect /\ [][NextSelect]_vars

\* The candidate set C: the tiles whose stddev is above the cutoff and whose
\* mean is below the global mean
CandidateSet ==
  LET global_mean    == mean_channel_value(tile_means)
      std_dev_cutoff == StdDevCutoff(tile_stddevs)
  IN {t \in CellsOf(sel_dims) :
        /\ tile_stddevs[t].value * STDDEV_NUM_BINS > std_dev_cutoff
        /\ tile_means[t].value * global_mean.den < global_mean.num}

KeptSet == {sel_kept[k] : k \in 1..Len(sel_kept)}

Min2(a, b) == IF a <= b THEN a ELSE b

\* C1: with more than 5 candidates the selector returns exactly the 5
\* candidates of highest stddev: no candidate left out has a higher stddev
\* than one that was kept.
C1_TopFiveByStddev ==
  (sel_pc = "returned" /\ Cardinality(CandidateSet) > MAX_NUM_TILES) =>
    /\ Cardinality(KeptSet) = MAX_NUM_TILES
    /\ KeptSet \subseteq CandidateSet
    /\ \A k \in KeptSet : \A u \in CandidateSet \ KeptSet :
         tile_stddevs[k].value >= tile_stddevs[u].value

\* C4: on a normal return kept_tile_indices holds min(|C|, 5) >= 1 pairwise
\* distinct members of the candidate set, and the returned count is its length.
C4_KeptAreDistinctCandidates ==
  sel_pc = "returned" =>
    /\ Len(sel_kept) = Min2(Cardinality(CandidateSet), MAX_NUM_TILES)
    /\ Len(sel_kept) >= 1
    /\ \A i, j \in 1..Len(sel_kept) : i # j => sel_kept[i] # sel_kept[j]
    /\ KeptSet \subseteq CandidateSet
    /\ sel_ret = Len(sel_kept)

\* C4 witness: a return through the capping branch, with more than 5 candidates
C4_Witness ==
  /\ sel_pc = "returned"
  /\ Cardinality(CandidateSet) > MAX_NUM_TILES
  /\ Len(sel_kept) = MAX_NUM_TILES

---------------------------------------------------------------------------
(* Fuzzy membership functors *)

Rational(n, d) == [num |-> n, den |-> d]

\* FuzzyMembershipZFunctor(a, b)(v), with m_c = (a+b)/2 and m_dba = b-a.
\* The quadratic branches are only entered when a <= v < b, so m_dba > 0.
FuzzyMembershipZFunctor(a, b, v) ==
  LET m_dba == b - a
  IN IF v < a THEN Rational(1, 1)
     ELSE IF 2 * v < a + b
          THEN Rational(m_dba * m_dba - 2 * (v - a) * (v - a), m_dba * m_dba)
     ELSE IF v < b
          THEN Rational(2 * (v - b) * (v - b), m_dba * m_dba)
     ELSE Rational(0, 1)

\* Variant of the S functor whose upper branch is anchored at a instead of b.
FuzzyMembershipSFunctor_WrongAnchor(a, b, v) ==
  LET m_dba == b - a
  IN IF v < a THEN Rational(0, 1)
     ELSE IF 2 * v < a + b
          THEN Rational(2 * (v - a) * (v - a), m_dba * m_dba)
     ELSE IF v < b
          THEN Rational(m_dba * m_dba - 2 * (v - a) * (v - a), m_dba * m_dba)
     ELSE Rational(1, 1)

\* FuzzyMembershipSFunctor(a, b)(v)
FuzzyMembershipSFunctor(a, b, v) ==
  LET m_dba == b - a
  IN IF v < a THEN Rational(0, 1)
     ELSE IF 2 * v < a + b
          THEN Rational(2 * (v - a) * (v - a), m_dba * m_dba)
     ELSE IF v < b
          THEN Rational(m_dba * m_dba - 2 * (v - b) * (v - b), m_dba * m_dba)
     ELSE Rational(1, 1)

---------------------------------------------------------------------------
(* SpecFuzzy: both functors on every (a, b, v) within the bounds *)

InitFuzzy ==
  /\ fz_pc = "input"
  /\ fz_a \in 0..FuzzyRange
  /\ fz_b \in 0..FuzzyRange
  /\ fz_v \in 0..FuzzyRange
  /\ fz_z = Rational(0, 1)
  /\ fz_s = Rational(0, 1)
  /\ KIOff /\ GTOff /\ SelOff /\ TmOff /\ PipeOff /\ DzOff /\ DvOff /\ FlOff /\ BlOff /\ PrOff /\ ExOff /\ PaOff /\ MaOff /\ AxOff /\ WsOff /\ GrOff

ApplyMembership ==
  /\ fz_pc = "input"
  /\ fz_z' = FuzzyMembershipZFunctor(fz_a, fz_b, fz_v)
  /\ fz_s' = FuzzyMembershipSFunctor(fz_a, fz_b, fz_v)
  /\ fz_pc' = "done"
  /\ UNCHANGED <<fz_a, fz_b, fz_v, kiVars, gtVars, selVars, tmVars, pVars, dzVars, dvVars, flVars, blVars, prVars, exVars, paVars, maVars, axVars, wsVars, grVars>>

NextFuzzy == ApplyMembership

SpecFuzzy == InitFuzzy /\ [][NextFuzzy]_vars

\* C10: for a < b and every v, Z(v) + S(v) = 1 and both lie in [0, 1];
\* Z is 1 below a and 0 from b on, S is 0 below a and 1 from b on.
C10_ZPlusSIsOne ==
  (fz_pc = "done" /\ fz_a < fz_b) =>
    /\ fz_z.den > 0 /\ fz_s.den > 0
    /\ fz_z.num * fz_s.den + fz_s.num * fz_z.den = fz_z.den * fz_s.den
    /\ 0 <= fz_z.num /\ fz_z.num <= fz_z.den
    /\ 0 <= fz_s.num /\ fz_s.num <= fz_s.den
    /\ (fz_v < fz_a  => fz_z.num = fz_z.den /\ fz_s.num = 0)
    /\ (fz_v >= fz_b => fz_z.num = 0 /\ fz_s.num = fz_s.den)

\* C10 witness: an input in the upper quadratic branch, (a+b)/2 <= v < b,
\* where both memberships are strictly between 0 and 1
C10_Witness ==
  /\ fz_pc = "done"
  /\ fz_a < fz_b
  /\ 2 * fz_v >= fz_a + fz_b /\ fz_v < fz_b
  /\ 0 < fz_z.num /\ fz_z.num < fz_z.den
  /\ 0 < fz_s.num /\ fz_s.num < fz_s.den

---------------------------------------------------------------------------
(* Tile statistics engine *)

\* An ImageView<RadarTypeM> of the given size with default-constructed pixels
ImageView(cols, rows) ==
  [cols |-> cols, rows |-> rows,
   px |-> [cell \in (0..(cols - 1)) \X (0..(rows - 1)) |-> InvalidPixel]]

\* The input image of SpecTiles is described block by block and quadrant by
\* quadrant: image[<<bx, by>>][<<qx, qy>>] lists the pixels of one quadrant
\* of the block with origin (bx*tile_size, by*tile_size) as a sequence of
\* runs [n, px] (n consecutive pixels equal to px).  The pixels a tile of odd
\* size has outside its four quadrants are never read and are left out.
CropTile(image, bbox, tile_size) ==
  image[<<bbox.x \div tile_size, bbox.y \div tile_size>>]

\* crop(section, sub_roi) for one of the four sub-ROIs of a tile
CropQuadrant(section, sub_roi) ==
  [cols |-> sub_roi.w, rows |-> sub_roi.h,
   runs |-> section[<<IF sub_roi.x = 0 THEN 0 ELSE 1,
                      IF sub_roi.y = 0 THEN 0 ELSE 1>>]]

\* Variant of mean_and_validity that divides the sum by the number of pixels.
mean_and_validity_OverAllPixels(image) ==
  LET runs  == image.runs
      count == SumOver([k \in 1..Len(runs) |->
                          IF runs[k].px.valid THEN runs[k].n ELSE 0], 1, Len(runs))
      sum   == SumOver([k \in 1..Len(runs) |->
                          IF runs[k].px.valid THEN runs[k].n * runs[k].px.value
                                              ELSE 0], 1, Len(runs))
  IN [mean |-> IF count > 0 THEN Rat(sum, image.rows * image.cols) ELSE Rat(0, 1),
      percent_valid |-> [num |-> count, den |-> image.rows * image.cols]]

\* mean_and_validity: the mean of the valid pixels (0 when there is none) and
\* the fraction of valid pixels, as the pair count / (rows*cols)
mean_and_validity(image) ==
  LET runs  == image.runs
      count == SumOver([k \in 1..Len(runs) |->
                          IF runs[k].px.valid THEN runs[k].n ELSE 0], 1, Len(runs))
      sum   == SumOver([k \in 1..Len(runs) |->
                          IF runs[k].px.valid THEN runs[k].n * runs[k].px.value
                                              ELSE 0], 1, Len(runs))
  IN [mean |-> IF count > 0 THEN Rat(sum, count) ELSE Rat(0, 1),
      percent_valid |-> [num |-> count, den |-> image.rows * image.cols]]

\* Variant of EnoughValid with a strict comparison.
EnoughValid_Strict(percent_valid) ==
  /\ percent_valid.den > 0
  /\ 10 * percent_valid.num > MIN_PERCENT_VALID * percent_valid.den

\* percent_valid >= MIN_PERCENT_VALID; the fraction 0/0 of an empty crop is a
\* NaN, which compares false
EnoughValid(percent_valid) ==
  /\ percent_valid.den > 0
  /\ 10 * percent_valid.num >= MIN_PERCENT_VALID * percent_valid.den

\* math::mean of a non-empty vector
Mean(v) == RatDivInt(RatSum(v, 1), Len(v))

\* math::standard_deviation(v, mean), carried by its square
StandardDeviation(v, mean) ==
  LET sq == [k \in 1..Len(v) |-> RatMul(RatSub(v[k], mean), RatSub(v[k], mean))]
  IN [sqrt_of |-> RatDivInt(RatSum(sq, 1), Len(v))]

\* The statistics prerasterize computes for an in-grid tile: the pixels to
\* store in m_tile_means and m_tile_stddevs
TileStatistics(image, bbox, tile_size) ==
  LET hw == bbox.w \div 2
      hh == bbox.h \div 2
      sub_rois == <<BBox2i(0,  0,  hw, hh), BBox2i(hw, 0,  hw, hh),
                    BBox2i(hw, hh, hw, hh), BBox2i(0,  hh, hw, hh)>>
      section == CropTile(image, bbox, tile_size)
      stats == [i \in 1..NUM_SUB_ROIS |->
                  mean_and_validity(CropQuadrant(section, sub_rois[i]))]
      kept  == SelectSeq([i \in 1..NUM_SUB_ROIS |-> i],
                         LAMBDA i : EnoughValid(stats[i].percent_valid))
      means == [k \in 1..Len(kept) |-> stats[kept[k]].mean]
      mean_of_means == IF Len(means) > 0 THEN Mean(means) ELSE Rat(0, 1)
      is_valid == Len(means) > 0 /\ mean_of_means.num > 0
  IN IF is_valid
       THEN [mean   |-> MaskedPixel(mean_of_means),
             stddev |-> MaskedPixel(StandardDeviation(means, mean_of_means))]
       ELSE [mean |-> InvalidPixel, stddev |-> InvalidPixel]

\* A write to pixel (col, row) of an ImageView
SetPixel(view, col, row, p) ==
  [view EXCEPT !.px = (<<col, row>> :> p) @@ view.px]

\* Variant of prerasterize that addresses the tables by (row, column).
prerasterize_Transposed(image, bbox, tile_size, means, stddevs) ==
  LET this_col == bbox.x \div tile_size
      this_row == bbox.y \div tile_size
  IN IF this_col < means.cols /\ this_row < means.rows
       THEN LET s == TileStatistics(image, bbox, tile_size)
            IN [means   |-> SetPixel(means,   this_row, this_col, s.mean),
                stddevs |-> SetPixel(stddevs, this_row, this_col, s.stddev),
                wrote   |-> {<<this_row, this_col>>}]
       ELSE [means |-> means, stddevs |-> stddevs, wrote |-> {}]

\* Variant of prerasterize without the test that the tile is in the tables.
prerasterize_Unchecked(image, bbox, tile_size, means, stddevs) ==
  LET this_col == bbox.x \div tile_size
      this_row == bbox.y \div tile_size
      s == TileStatistics(image, bbox, tile_size)
  IN [means   |-> SetPixel(means,   this_col, this_row, s.mean),
      stddevs |-> SetPixel(stddevs, this_col, this_row, s.stddev),
      wrote   |-> {<<this_col, this_row>>}]

\* prerasterize of ImageTileMeansView for the block bbox: the two tables after
\* the call and the set of cells it wrote
prerasterize(image, bbox, tile_size, means, stddevs) ==
  LET this_col == bbox.x \div tile_size
      this_row == bbox.y \div tile_size
  IN IF this_col < means.cols /\ this_row < means.rows
       THEN LET s == TileStatistics(image, bbox, tile_size)
            IN [means   |-> SetPixel(means,   this_col, this_row, s.mean),
                stddevs |-> SetPixel(stddevs, this_col, this_row, s.stddev),
                wrote   |-> {<<this_col, this_row>>}]
       ELSE [means |-> means, stddevs |-> stddevs, wrote |-> {}]

\* The blocks block_write_gdal_image rasterizes: the image cut into blocks of
\* raster_tile_size, partial blocks at the right and bottom borders included
BlockWriteBoxes(size, tile_size) ==
  LET d == divide_roi(BBox2i(0, 0, size.w, size.h), tile_size, TRUE)
  IN {d.rois[r][c] : r \in 1..Len(d.rois),
                     c \in 1..CeilDiv(size.w, tile_size)}

---------------------------------------------------------------------------
(* SpecTiles: generate_tile_means, one task per block, in any order *)

\* n pixels, the first n - valid of them invalid and the others equal to value
QuadrantRuns(n, valid, value) ==
  SelectSeq(<<[n |-> n - valid, px |-> InvalidPixel],
              [n |-> valid,     px |-> MaskedPixel(value)]>>,
            LAMBDA run : run.n > 0)

\* The least number of valid pixels, out of n, that reaches MIN_PERCENT_VALID
AtCutoff(n) == CeilDiv(MIN_PERCENT_VALID * n, 10)

QuadrantKinds(n) ==
  { QuadrantRuns(n, n, 3), QuadrantRuns(n, n, 5), QuadrantRuns(n, n, -3),
    QuadrantRuns(n, AtCutoff(n), 4), QuadrantRuns(n, AtCutoff(n) - 1, 5),
    QuadrantRuns(n, 0, 0) }

Quadrants == {0, 1} \X {0, 1}

\* The number of pixels of one quadrant of the block bbox
QuadrantPixels(bbox) == (bbox.w \div 2) * (bbox.h \div 2)

UniformTile(bbox, valid, value) ==
  [q \in Quadrants |-> QuadrantRuns(QuadrantPixels(bbox), valid, value)]

BlockOrigin(bbox, tile_size) == <<bbox.x \div tile_size, bbox.y \div tile_size>>

\* One tile alone, with every combination of quadrant kinds
SingleTileImages ==
  LET size == [w |-> TileSize, h |-> TileSize]
      n == QuadrantPixels(BBox2i(0, 0, TileSize, TileSize))
  IN {[size |-> size, image |-> (<<0, 0>> :> tile)] :
        tile \in [Quadrants -> QuadrantKinds(n)]}

\* A TileCols x TileRows grid with a partial column of blocks on the right:
\* every tile bright, but for at most one dark or invalid tile
GridImages ==
  LET size  == [w |-> TileCols * TileSize + 1, h |-> TileRows * TileSize]
      boxes == BlockWriteBoxes(size, TileSize)
      plain == [o \in {BlockOrigin(b, TileSize) : b \in boxes} |->
                  LET b == CHOOSE b \in boxes : BlockOrigin(b, TileSize) = o
                  IN UniformTile(b, QuadrantPixels(b), 3)]
      full  == {b \in boxes : b.w = TileSize /\ b.h = TileSize}
  IN {[size |-> size, image |-> plain]} \cup
     {[size |-> size,
       image |-> [plain EXCEPT ![BlockOrigin(b, TileSize)] =
                    UniformTile(b, IF dark THEN 0 ELSE QuadrantPixels(b) - 1, 3)]] :
        b \in full, dark \in BOOLEAN}

InitTiles ==
  /\ \E input \in SingleTileImages \cup GridImages :
       /\ tm_size = input.size
       /\ tm_image = input.image
       /\ tm_means = ImageView(FloorDiv(input.size.w, TileSize),
                               FloorDiv(input.size.h, TileSize))
       /\ tm_stddevs = ImageView(FloorDiv(input.size.w, TileSize),
                                 FloorDiv(input.size.h, TileSize))
       /\ tm_todo = BlockWriteBoxes(input.size, TileSize)
  /\ tm_log = {}
  /\ tm_pc = "writing"
  /\ KIOff /\ GTOff /\ SelOff /\ FzOff /\ PipeOff /\ DzOff /\ DvOff /\ FlOff /\ BlOff /\ PrOff /\ ExOff /\ PaOff /\ MaOff /\ AxOff /\ WsOff /\ GrOff

\* One task of block_write_gdal_image rasterizes one block
RasterizeBlock ==
  /\ tm_pc = "writing"
  /\ \E bbox \in tm_todo :
       LET after == prerasterize(tm_image, bbox, TileSize, tm_means, tm_stddevs)
       IN /\ tm_means' = after.means
          /\ tm_stddevs' = after.stddevs
          /\ tm_log' = tm_log \cup {[block |-> bbox, cell |-> cell] :
                                      cell \in after.wrote}
          /\ tm_todo' = tm_todo \ {bbox}
  /\ UNCHANGED <<tm_pc, tm_size, tm_image, kiVars, gtVars, selVars, fzVars, pVars, dzVars, dvVars, flVars, blVars, prVars, exVars, paVars, maVars, axVars, wsVars, grVars>>

\* block_write_gdal_image returns once every block is written, and
\* generate_tile_means hands the two tables to its caller
ReturnTileMeans ==
  /\ tm_pc = "writing"
  /\ tm_todo = {}
  /\ tm_pc' = "returned"
  /\ UNCHANGED <<tm_size, tm_image, tm_means, tm_stddevs, tm_todo, tm_log,
                 kiVars, gtVars, selVars, fzVars, pVars, dzVars, dvVars, flVars, blVars, prVars, exVars, paVars, maVars, axVars, wsVars, grVars>>

NextTiles == RasterizeBlock \/ ReturnTileMeans

SpecTiles == InitTiles /\ [][NextTiles]_vars

\* The cells of the tile grid of an image
GridCells == (0..(FloorDiv(tm_size.w, TileSize) - 1))
               \X (0..(FloorDiv(tm_size.h, TileSize) - 1))

\* The block of the image that covers grid cell c
BlockOfCell(c) == BBox2i(c[1] * TileSize, c[2] * TileSize, TileSize, TileSize)

Written(c) == \E e \in tm_log : e.cell = c

ValidPixels(runs) == {k \in 1..Len(runs) : runs[k].px.valid}

RECURSIVE CountOver(_, _)
CountOver(runs, S) ==
  IF S = {} THEN 0
  ELSE LET k == CHOOSE k \in S : TRUE IN runs[k].n + CountOver(runs, S \ {k})

RECURSIVE TotalOver(_, _)
TotalOver(runs, S) ==
  IF S = {} THEN 0
  ELSE LET k == CHOOSE k \in S : TRUE
       IN runs[k].n * runs[k].px.value + TotalOver(runs, S \ {k})

\* The quadrants of tile c of which at least nine tenths of the pixels are valid
KeptQuadrants(c) ==
  {q \in Quadrants :
     LET runs == tm_image[c][q]
     IN 10 * CountOver(runs, ValidPixels(runs))
          >= 9 * CountOver(runs, 1..Len(runs))}

QuadrantMean(c, q) ==
  LET runs == tm_image[c][q]
  IN Rat(TotalOver(runs, ValidPixels(runs)), CountOver(runs, ValidPixels(runs)))

RECURSIVE RatSumOver(_, _)
RatSumOver(f, S) ==
  IF S = {} THEN Rat(0, 1)
  ELSE LET q == CHOOSE q \in S : TRUE IN RatAdd(f[q], RatSumOver(f, S \ {q}))

MeanOfKept(c) ==
  LET K == KeptQuadrants(c)
  IN RatDivInt(RatSumOver([q \in K |-> QuadrantMean(c, q)], K), Cardinality(K))

VarianceOfKept(c) ==
  LET K == KeptQuadrants(c)
      M == MeanOfKept(c)
      d == [q \in K |-> RatSub(QuadrantMean(c, q), M)]
  IN RatDivInt(RatSumOver([q \in K |-> RatMul(d[q], d[q])], K), Cardinality(K))

\* C7: a written tile keeps the quadrants whose valid fraction is at least 0.9;
\* with at least one kept and a mean of their means above 0 its cell holds
\* that mean and the standard deviation of the kept means and is valid in
\* both tables, and otherwise the cell is invalid in both tables.
C7_TileCellFromKeptQuadrants ==
  \A c \in GridCells :
    Written(c) =>
      IF KeptQuadrants(c) # {} /\ MeanOfKept(c).num > 0
        THEN /\ tm_means.px[c] = [valid |-> TRUE, value |-> MeanOfKept(c)]
             /\ tm_stddevs.px[c] =
                  [valid |-> TRUE, value |-> [sqrt_of |-> VarianceOfKept(c)]]
        ELSE /\ ~tm_means.px[c].valid
             /\ ~tm_stddevs.px[c].valid

\* C7 witness: a tile with a quadrant exactly at the 0.9 cutoff (kept), a
\* quadrant just below it (dropped) and two fully valid ones, written with a
\* valid mean and a non-zero standard deviation
C7_Witness ==
  /\ tm_pc = "returned"
  /\ GridCells = {<<0, 0>>}
  /\ Cardinality(KeptQuadrants(<<0, 0>>)) = 3
  /\ \E q \in KeptQuadrants(<<0, 0>>) :
       LET runs == tm_image[<<0, 0>>][q]
       IN 10 * CountOver(runs, ValidPixels(runs)) = 9 * CountOver(runs, 1..Len(runs))
  /\ \E q \in Quadrants \ KeptQuadrants(<<0, 0>>) :
       ValidPixels(tm_image[<<0, 0>>][q]) # {}
  /\ tm_means.px[<<0, 0>>].valid
  /\ tm_stddevs.px[<<0, 0>>].valid
  /\ tm_stddevs.px[<<0, 0>>].value.sqrt_of.num > 0

\* C8: every write goes to the cell of the block that makes it, a cell of the
\* grid; no cell is written twice and a border block outside the grid writes
\* nothing; when generate_tile_means returns every cell of the grid has been
\* written exactly once and no block is left.
C8_EachTileWrittenOnce ==
  /\ DOMAIN tm_means.px = GridCells
  /\ DOMAIN tm_stddevs.px = GridCells
  /\ \A e \in tm_log :
       /\ e.cell \in GridCells
       /\ e.block = BlockOfCell(e.cell)
  /\ \A c \in GridCells : Cardinality({e \in tm_log : e.cell = c}) <= 1
  /\ tm_pc = "returned" =>
       /\ tm_todo = {}
       /\ \A c \in GridCells : Cardinality({e \in tm_log : e.cell = c}) = 1

\* C8 witness: the run over a grid with border blocks has returned, the border
\* blocks have been rasterized and every cell of the grid has been written
C8_Witness ==
  /\ tm_pc = "returned"
  /\ Cardinality(GridCells) > 1
  /\ BlockWriteBoxes(tm_size, TileSize) # {BlockOfCell(c) : c \in GridCells}
  /\ \A c \in GridCells : Written(c)

---------------------------------------------------------------------------
(* The sar_martinis pipeline *)

\* Variant of sar_martinis that sizes the blobs before the initial water mask
\* is written.
sar_martinis_Reordered ==
  << [name |-> "read_georeference", kind |-> "check",
      reads |-> {"input_image"}, target |-> "have_georef"],
     [name |-> "preprocess_sentinel1_image", kind |-> "write",
      reads |-> {"input_image"}, target |-> "preprocessed_image.tif"],
     [name |-> "divide_roi", kind |-> "compute",
      reads |-> {"preprocessed_image.tif"}, target |-> "none"],
     [name |-> "generate_tile_means", kind |-> "write",
      reads |-> {"preprocessed_image.tif"}, target |-> "dummy.tif"],
     [name |-> "remove_dummy", kind |-> "remove",
      reads |-> {}, target |-> "dummy.tif"],
     [name |-> "write_tile_means", kind |-> "write",
      reads |-> {}, target |-> "tile_means.tif"],
     [name |-> "write_tile_stddevs", kind |-> "write",
      reads |-> {}, target |-> "tile_stddevs.tif"],
     [name |-> "select_best_tiles", kind |-> "select",
      reads |-> {}, target |-> "none"],
     [name |-> "compute_global_threshold", kind |-> "compute",
      reads |-> {"preprocessed_image.tif"}, target |-> "none"],
     [name |-> "blob_sizes", kind |-> "write",
      reads |-> {"initial_water_detect.tif"}, target |-> "blob_sizes.tif"],
     [name |-> "initial_water_detect", kind |-> "write",
      reads |-> {"preprocessed_image.tif"}, target |-> "initial_water_detect.tif"],
     [name |-> "mean_raw_water_value", kind |-> "compute",
      reads |-> {"preprocessed_image.tif", "initial_water_detect.tif"},
      target |-> "none"],
     [name |-> "read_dem_georeference", kind |-> "check",
      reads |-> {"dem"}, target |-> "have_dem_georef"],
     [name |-> "low_res_dem", kind |-> "write",
      reads |-> {"dem"}, target |-> "low_res_dem.tif"],
     [name |-> "dem_statistics", kind |-> "compute",
      reads |-> {"preprocessed_image.tif", "initial_water_detect.tif"},
      target |-> "none"],
     [name |-> "final_output", kind |-> "write",
      reads |-> {"preprocessed_image.tif", "dem", "blob_sizes.tif",
                 "initial_water_detect.tif"},
      target |-> "radar_final_output.tif"],
     [name |-> "cleanup", kind |-> "remove",
      reads |-> {}, target |-> "preprocessed_image.tif"] >>

\* The steps of sar_martinis in program order.  A "check" reads a
\* georeference and throws when there is none; a "write" is one call of
\* block_write_gdal_image, whose blocks evaluate the lazy views over the
\* rasters in `reads`; a "compute" reads rasters in the calling thread; a
\* "remove" deletes a file.  The fuzzy memberships, the defuzzification and
\* the two-threshold fill are lazy views evaluated by the final write.
sar_martinis ==
  << [name |-> "read_georeference", kind |-> "check",
      reads |-> {"input_image"}, target |-> "have_georef"],
     [name |-> "preprocess_sentinel1_image", kind |-> "write",
      reads |-> {"input_image"}, target |-> "preprocessed_image.tif"],
     [name |-> "divide_roi", kind |-> "compute",
      reads |-> {"preprocessed_image.tif"}, target |-> "none"],
     [name |-> "generate_tile_means", kind |-> "write",
      reads |-> {"preprocessed_image.tif"}, target |-> "dummy.tif"],
     [name |-> "remove_dummy", kind |-> "remove",
      reads |-> {}, target |-> "dummy.tif"],
     [name |-> "write_tile_means", kind |-> "write",
      reads |-> {}, target |-> "tile_means.tif"],
     [name |-> "write_tile_stddevs", kind |-> "write",
      reads |-> {}, target |-> "tile_stddevs.tif"],
     [name |-> "select_best_tiles", kind |-> "select",
      reads |-> {}, target |-> "none"],
     [name |-> "compute_global_threshold", kind |-> "compute",
      reads |-> {"preprocessed_image.tif"}, target |-> "none"],
     [name |-> "initial_water_detect", kind |-> "write",
      reads |-> {"preprocessed_image.tif"}, target |-> "initial_water_detect.tif"],
     [name |-> "blob_sizes", kind |-> "write",
      reads |-> {"initial_water_detect.tif"}, target |-> "blob_sizes.tif"],
     [name |-> "mean_raw_water_value", kind |-> "compute",
      reads |-> {"preprocessed_image.tif", "initial_water_detect.tif"},
      target |-> "none"],
     [name |-> "read_dem_georeference", kind |-> "check",
      reads |-> {"dem"}, target |-> "have_dem_georef"],
     [name |-> "low_res_dem", kind |-> "write",
      reads |-> {"dem"}, target |-> "low_res_dem.tif"],
     [name |-> "dem_statistics", kind |-> "compute",
      reads |-> {"preprocessed_image.tif", "initial_water_detect.tif"},
      target |-> "none"],
     [name |-> "final_output", kind |-> "write",
      reads |-> {"preprocessed_image.tif", "dem", "blob_sizes.tif",
                 "initial_water_detect.tif"},
      target |-> "radar_final_output.tif"],
     [name |-> "cleanup", kind |-> "remove",
      reads |-> {}, target |-> "preprocessed_image.tif"] >>

InputFiles == {"input_image", "dem"}

OutputFiles ==
  {"preprocessed_image.tif", "dummy.tif", "tile_means.tif", "tile_stddevs.tif",
   "initial_kept_tiles.tif", "final_kept_tiles.tif", "initial_water_detect.tif",
   "blob_sizes.tif", "low_res_dem.tif", "radar_final_output.tif"}

---------------------------------------------------------------------------
(* SpecPipeline: one run of sar_martinis, the blocks of each write in any order *)

\* The tile tables the statistics stage hands to the selector: flat bright
\* tiles, but for at most one tile of another kind
PipelineTables ==
  LET cells == (0..(TileCols - 1)) \X (0..(TileRows - 1))
      flat  == [mean |-> MaskedPixel(9), stddev |-> MaskedPixel(0)]
      plain == [t \in cells |-> flat]
  IN {plain} \cup {[plain EXCEPT ![t] = kind] : t \in cells, kind \in TileKinds}

InitPipeline ==
  /\ p_stage = 1
  /\ p_status = "idle"
  /\ p_blocks = {}
  /\ p_files = [f \in InputFiles \cup OutputFiles |->
                  IF f \in InputFiles THEN "complete" ELSE "absent"]
  /\ p_reads = {}
  /\ p_started = <<>>
  /\ p_env \in [{"have_georef", "have_dem_georef"} -> BOOLEAN]
  /\ sel_pc = "input"
  /\ sel_dims = [cols |-> TileCols, rows |-> TileRows]
  /\ \E kinds \in PipelineTables :
       /\ tile_means   = [t \in DOMAIN kinds |-> kinds[t].mean]
       /\ tile_stddevs = [t \in DOMAIN kinds |-> kinds[t].stddev]
  /\ sel_kept = <<>>
  /\ sel_ret = 0
  /\ sel_files = {}
  /\ KIOff /\ GTOff /\ FzOff /\ TmOff /\ DzOff /\ DvOff /\ FlOff /\ BlOff /\ PrOff /\ ExOff /\ PaOff /\ MaOff /\ AxOff /\ WsOff /\ GrOff

AtStage(kind) ==
  /\ p_status = "idle"
  /\ p_stage <= Len(sar_martinis)
  /\ sar_martinis[p_stage].kind = kind

\* The reads a step makes, each with the state of the file when it is read
ReadsOf(stage) ==
  {[stage |-> stage.name, file |-> f, status |-> p_files[f]] : f \in stage.reads}

\* Variant of CheckGeoreference: the run goes on without the georeference
CheckGeoreference_NoThrow ==
  /\ AtStage("check")
  /\ LET stage == sar_martinis[p_stage]
     IN /\ p_started' = Append(p_started, stage.name)
        /\ p_reads' = p_reads \cup ReadsOf(stage)
        /\ p_stage' = p_stage + 1 /\ p_status' = "idle"
  /\ UNCHANGED <<p_blocks, p_files, p_env, kiVars, gtVars, selVars, fzVars, tmVars, dzVars, dvVars, flVars, blVars, prVars, exVars, paVars, maVars, axVars, wsVars, grVars>>

\* read_georeference, and vw_throw(ArgumentErr) when it fails
CheckGeoreference ==
  /\ AtStage("check")
  /\ LET stage == sar_martinis[p_stage]
     IN /\ p_started' = Append(p_started, stage.name)
        /\ p_reads' = p_reads \cup ReadsOf(stage)
        /\ IF p_env[stage.target]
             THEN p_stage' = p_stage + 1 /\ p_status' = "idle"
             ELSE p_stage' = p_stage /\ p_status' = "failed"
  /\ UNCHANGED <<p_blocks, p_files, p_env, kiVars, gtVars, selVars, fzVars, tmVars, dzVars, dvVars, flVars, blVars, prVars, exVars, paVars, maVars, axVars, wsVars, grVars>>

\* block_write_gdal_image creates the file and queues one task per block
BeginBlockWrite ==
  /\ AtStage("write")
  /\ LET stage == sar_martinis[p_stage]
     IN /\ p_started' = Append(p_started, stage.name)
        /\ p_files' = [p_files EXCEPT ![stage.target] = "partial"]
  /\ p_blocks' = 1..PipelineBlocks
  /\ p_status' = "writing"
  /\ UNCHANGED <<p_stage, p_reads, p_env, kiVars, gtVars, selVars, fzVars, tmVars, dzVars, dvVars, flVars, blVars, prVars, exVars, paVars, maVars, axVars, wsVars, grVars>>

\* One task rasterizes one block of the view and writes it
WriteBlock ==
  /\ p_status = "writing"
  /\ \E b \in p_blocks : p_blocks' = p_blocks \ {b}
  /\ p_reads' = p_reads \cup ReadsOf(sar_martinis[p_stage])
  /\ UNCHANGED <<p_stage, p_status, p_files, p_started, p_env,
                 kiVars, gtVars, selVars, fzVars, tmVars, dzVars, dvVars, flVars, blVars, prVars, exVars, paVars, maVars, axVars, wsVars, grVars>>

\* block_write_gdal_image returns once every block is written
EndBlockWrite ==
  /\ p_status = "writing"
  /\ p_blocks = {}
  /\ p_files' = [p_files EXCEPT ![sar_martinis[p_stage].target] = "complete"]
  /\ p_stage' = p_stage + 1
  /\ p_status' = "idle"
  /\ UNCHANGED <<p_blocks, p_reads, p_started, p_env,
                 kiVars, gtVars, selVars, fzVars, tmVars, dzVars, dvVars, flVars, blVars, prVars, exVars, paVars, maVars, axVars, wsVars, grVars>>

\* A computation in the calling thread
Compute ==
  /\ AtStage("compute")
  /\ LET stage == sar_martinis[p_stage]
     IN /\ p_started' = Append(p_started, stage.name)
        /\ p_reads' = p_reads \cup ReadsOf(stage)
  /\ p_stage' = p_stage + 1
  /\ UNCHANGED <<p_status, p_blocks, p_files, p_env,
                 kiVars, gtVars, selVars, fzVars, tmVars, dzVars, dvVars, flVars, blVars, prVars, exVars, paVars, maVars, axVars, wsVars, grVars>>

\* select_best_tiles on the tile tables; the LogicErr it throws leaves
\* sar_martinis, which catches nothing
SelectTiles ==
  /\ AtStage("select")
  /\ LET res == select_best_tiles(sel_dims, tile_means, tile_stddevs)
     IN /\ sel_pc' = IF res.thrown THEN "thrown" ELSE "returned"
        /\ sel_kept' = res.kept
        /\ sel_ret' = res.ret
        /\ sel_files' = res.files
        /\ p_files' = [f \in DOMAIN p_files |->
                         IF f \in res.files THEN "complete" ELSE p_files[f]]
        /\ IF res.thrown
             THEN p_stage' = p_stage /\ p_status' = "failed"
             ELSE p_stage' = p_stage + 1 /\ p_status' = "idle"
  /\ p_started' = Append(p_started, sar_martinis[p_stage].name)
  /\ UNCHANGED <<p_blocks, p_reads, p_env, sel_dims, tile_means, tile_stddevs,
                 kiVars, gtVars, fzVars, tmVars, dzVars, dvVars, flVars, blVars, prVars, exVars, paVars, maVars, axVars, wsVars, grVars>>

\* std::remove of a temporary file
RemoveFile ==
  /\ AtStage("remove")
  /\ LET stage == sar_martinis[p_stage]
     IN /\ p_started' = Append(p_started, stage.name)
        /\ p_files' = [p_files EXCEPT ![stage.target] = "absent"]
  /\ p_stage' = p_stage + 1
  /\ UNCHANGED <<p_status, p_blocks, p_reads, p_env,
                 kiVars, gtVars, selVars, fzVars, tmVars, dzVars, dvVars, flVars, blVars, prVars, exVars, paVars, maVars, axVars, wsVars, grVars>>

\* sar_martinis returns
Return ==
  /\ p_status = "idle"
  /\ p_stage = Len(sar_martinis) + 1
  /\ p_status' = "done"
  /\ UNCHANGED <<p_stage, p_blocks, p_files, p_reads, p_started, p_env,
                 kiVars, gtVars, selVars, fzVars, tmVars, dzVars, dvVars, flVars, blVars, prVars, exVars, paVars, maVars, axVars, wsVars, grVars>>

NextPipeline ==
  \/ CheckGeoreference
  \/ BeginBlockWrite
  \/ WriteBlock
  \/ EndBlockWrite
  \/ Compute
  \/ SelectTiles
  \/ RemoveFile
  \/ Return

SpecPipeline == InitPipeline /\ [][NextPipeline]_vars

Started(name) == \E i \in 1..Len(p_started) : p_started[i] = name

\* A started stage is complete unless it is the last one started and is
\* still writing or has failed
Completed(name) ==
  \E i \in 1..Len(p_started) :
    /\ p_started[i] = name
    /\ (i = Len(p_started) => p_status \in {"idle", "done"})

\* The stages of sar_martinis that follow the tile selection
StagesAfterSelection ==
  {"compute_global_threshold", "initial_water_detect", "blob_sizes",
   "mean_raw_water_value", "read_dem_georeference", "low_res_dem",
   "dem_statistics", "final_output", "cleanup"}

\* C3: when the candidate set is empty the selector throws, the run ends
\* there, and none of the stages after the selection is ever started: no
\* threshold, no initial water mask, no blob sizes, no final output.
C3_EmptyCandidateSetIsFatal ==
  (Started("select_best_tiles") /\ CandidateSet = {}) =>
    /\ sel_pc = "thrown"
    /\ p_status = "failed"
    /\ \A name \in StagesAfterSelection : ~Started(name)
    /\ \A f \in {"initial_water_detect.tif", "blob_sizes.tif",
                 "low_res_dem.tif", "radar_final_output.tif"} :
         p_files[f] = "absent"

\* C3 witness: the selector has thrown on an empty candidate set, after
\* writing its first debug raster
C3_Witness ==
  /\ sel_pc = "thrown"
  /\ CandidateSet = {}
  /\ p_status = "failed"
  /\ p_files["initial_kept_tiles.tif"] = "complete"
  /\ Completed("generate_tile_means")

\* C9: the stages run one after the other: every stage started before the
\* last one is complete, the selection starts after the tile statistics are
\* all written, the threshold after the selection has returned, the blob
\* sizing after the initial water mask is fully written, the final write
\* after the blob sizes are fully written, and every raster is complete when
\* it is read.
C9_StagesInSequence ==
  /\ \A i \in 1..(Len(p_started) - 1) : Completed(p_started[i])
  /\ Started("select_best_tiles") =>
       Completed("generate_tile_means") /\ p_files["dummy.tif"] # "partial"
  /\ Started("compute_global_threshold") => sel_pc = "returned"
  /\ Started("blob_sizes") => p_files["initial_water_detect.tif"] = "complete"
  /\ Started("final_output") => p_files["blob_sizes.tif"] = "complete"
  /\ \A e \in p_reads : e.status = "complete"
  /\ \A f \in DOMAIN p_files :
       p_files[f] = "partial" =>
         p_status = "writing" /\ f = sar_martinis[p_stage].target

\* C9 witness: a complete run, in which the final write has read the blob
\* sizes and the initial water mask
C9_Witness ==
  /\ p_status = "done"
  /\ p_files["radar_final_output.tif"] = "complete"
  /\ \E e \in p_reads : e.stage = "final_output" /\ e.file = "blob_sizes.tif"
  /\ \E e \in p_reads : e.stage = "blob_sizes" /\ e.file = "initial_water_detect.tif"

---------------------------------------------------------------------------
(* The fuzzy stage on masked pixels *)

\* FuzzyMembershipZFunctor<RadarTypeM>::operator(): T is PixelMask<float>.
\* The comparisons and the arithmetic read the number the pixel holds; every
\* return statement builds T from a number, which is a valid pixel.  The
\* validity of v is never read.
FuzzyMembershipZFunctor_OnPixel(a, b, v) ==
  MaskedPixel(FuzzyMembershipZFunctor(a, b, v.value))

\* FuzzyMembershipSFunctor<RadarTypeM>::operator(), likewise
FuzzyMembershipSFunctor_OnPixel(a, b, v) ==
  MaskedPixel(FuzzyMembershipSFunctor(a, b, v.value))

\* Variant of DefuzzFunctor without the veto of a zero score.
DefuzzFunctor_PlainMean(p1, p2, p3, p4) ==
  MaskedPixel(RatDivInt(RatAdd(RatAdd(p1.value, p2.value),
                               RatAdd(p3.value, p4.value)), 4))

\* DefuzzFunctor::operator(): result_type(0.0) when a score equals 0, and
\* otherwise result_type(mean) with the float mean = (p1+p2+p3+p4)/4.0.
\* Both returns build a PixelMask<float> from a number, a valid pixel; the
\* scores are rationals [num, den] in lowest terms.
DefuzzFunctor(p1, p2, p3, p4) ==
  IF p1.value.num = 0 \/ p2.value.num = 0 \/ p3.value.num = 0 \/ p4.value.num = 0
    THEN MaskedPixel(Rat(0, 1))
    ELSE MaskedPixel(RatDivInt(RatAdd(RatAdd(p1.value, p2.value),
                                      RatAdd(p3.value, p4.value)), 4))

---------------------------------------------------------------------------
(* SpecDefuzz: the membership functors and DefuzzFunctor on masked pixels *)

\* A pixel holding the number v, valid or not (an invalidated pixel keeps
\* the number it held)
PixelsOf(values) == {[valid |-> ok, value |-> v] : ok \in BOOLEAN, v \in values}

\* The scores 0, 1/DefuzzLevels, ..., 1
Scores01 == {Rat(k, DefuzzLevels) : k \in 0..DefuzzLevels}

InitDefuzz ==
  /\ \/ /\ dz_pc = "membership"
        /\ dz_args \in [a : 0..FuzzyRange, b : 0..FuzzyRange,
                        v : PixelsOf(0..FuzzyRange)]
     \/ /\ dz_pc = "defuzz"
        /\ dz_args \in [1..4 -> PixelsOf(Scores01)]
  /\ dz_result = <<>>
  /\ KIOff /\ GTOff /\ SelOff /\ FzOff /\ TmOff /\ PipeOff /\ DvOff /\ FlOff /\ BlOff /\ PrOff /\ ExOff /\ PaOff /\ MaOff /\ AxOff /\ WsOff /\ GrOff

\* per_pixel_view applies a membership functor to one pixel
ApplyMembershipToPixel ==
  /\ dz_pc = "membership"
  /\ dz_result' =
       [z |-> FuzzyMembershipZFunctor_OnPixel(dz_args.a, dz_args.b, dz_args.v),
        s |-> FuzzyMembershipSFunctor_OnPixel(dz_args.a, dz_args.b, dz_args.v)]
  /\ dz_pc' = "done_membership"
  /\ UNCHANGED <<dz_args, kiVars, gtVars, selVars, fzVars, tmVars, pVars, dvVars, flVars, blVars, prVars, exVars, paVars, maVars, axVars, wsVars, grVars>>

\* per_pixel_view applies DefuzzFunctor to the four fuzzy pixels
Defuzz ==
  /\ dz_pc = "defuzz"
  /\ dz_result' = DefuzzFunctor(dz_args[1], dz_args[2], dz_args[3], dz_args[4])
  /\ dz_pc' = "done_defuzz"
  /\ UNCHANGED <<dz_args, kiVars, gtVars, selVars, fzVars, tmVars, pVars, dvVars, flVars, blVars, prVars, exVars, paVars, maVars, axVars, wsVars, grVars>>

NextDefuzz == ApplyMembershipToPixel \/ Defuzz

SpecDefuzz == InitDefuzz /\ [][NextDefuzz]_vars

\* C11: an invalid input pixel of the Z or S functor gives an invalid output
\* pixel, and an invalid pixel among the four inputs of DefuzzFunctor gives
\* an invalid output pixel.
C11_InvalidityPropagates ==
  /\ (dz_pc = "done_membership" /\ ~dz_args.v.valid) =>
       ~dz_result.z.valid /\ ~dz_result.s.valid
  /\ (dz_pc = "done_defuzz" /\ \E i \in 1..4 : ~dz_args[i].valid) =>
       ~dz_result.valid

\* The four scores of a defuzzed pixel as [num, den] pairs
ScoreOf(i) == dz_args[i].value

\* C12: for four valid scores in [0, 1] DefuzzFunctor returns 0 when a score
\* is exactly 0 and the arithmetic mean of the four otherwise; the result is
\* in [0, 1] and is above 0 exactly when all four scores are.
C12_VetoMean ==
  (dz_pc = "done_defuzz" /\ \A i \in 1..4 : dz_args[i].valid) =>
    LET out == dz_result.value
        \* the sum of the four scores, in units of 1/DefuzzLevels
        sum == SumOver([i \in 1..4 |->
                          ScoreOf(i).num * (DefuzzLevels \div ScoreOf(i).den)], 1, 4)
    IN /\ dz_result.valid
       /\ out.den > 0
       /\ IF \E i \in 1..4 : ScoreOf(i).num = 0
            THEN out.num = 0
            ELSE out.num * 4 * DefuzzLevels = sum * out.den
       /\ 0 <= out.num /\ out.num <= out.den
       /\ (out.num > 0) <=> (\A i \in 1..4 : ScoreOf(i).num > 0)

\* C12 witness: four different scores above 0, whose mean is returned
C12_Witness ==
  /\ dz_pc = "done_defuzz"
  /\ \A i \in 1..4 : dz_args[i].valid /\ ScoreOf(i).num > 0
  /\ \A i, j \in 1..4 : i # j => ScoreOf(i) # ScoreOf(j)
  /\ 0 < dz_result.value.num /\ dz_result.value.num < dz_result.value.den

---------------------------------------------------------------------------
(* SpecDivide: divide_roi on every ROI, size and flag within the bounds *)

InitDivide ==
  /\ dv_pc = "input"
  /\ dv_args \in [full_roi : {BBox2i(x, y, w, h) : x \in 0..DivMaxCorner,
                                                   y \in 0..DivMaxCorner,
                                                   w \in 0..DivMaxExtent,
                                                   h \in 0..DivMaxExtent},
                  size : 1..DivMaxSize,
                  include_partials : BOOLEAN]
  /\ dv_result = <<>>
  /\ KIOff /\ GTOff /\ SelOff /\ FzOff /\ TmOff /\ PipeOff /\ DzOff /\ FlOff /\ BlOff /\ PrOff /\ ExOff /\ PaOff /\ MaOff /\ AxOff /\ WsOff /\ GrOff

DivideRoi ==
  /\ dv_pc = "input"
  /\ dv_result' = divide_roi(dv_args.full_roi, dv_args.size, dv_args.include_partials)
  /\ dv_pc' = "done"
  /\ UNCHANGED <<dv_args, kiVars, gtVars, selVars, fzVars, tmVars, pVars, dzVars, flVars, blVars, prVars, exVars, paVars, maVars, axVars, wsVars, grVars>>

NextDivide == DivideRoi

SpecDivide == InitDivide /\ [][NextDivide]_vars

\* The least n with n*size >= extent, and the greatest n with n*size <= extent
CeilOf(extent, size)  == CHOOSE n \in 0..extent : n * size >= extent /\ (n = 0 \/ (n - 1) * size < extent)
FloorOf(extent, size) == CHOOSE n \in 0..extent : n * size <= extent /\ (n + 1) * size > extent

---------------------------------------------------------------------------
(* Tiles of four identical quadrants (SpecTiles) *)

\* Tile c has four quadrants of the same pixel content, each at least nine
\* tenths valid
IdenticalQuadrants(c) ==
  /\ \A q \in Quadrants : tm_image[c][q] = tm_image[c][<<0, 0>>]
  /\ KeptQuadrants(c) = Quadrants

\* C14 as stated: a written tile of four identical quadrants, each at least
\* 90% valid, has a standard deviation of exactly 0 in the table and the
\* common quadrant mean as its mean.
C14_IdenticalQuadrantsAsStated ==
  \A c \in GridCells :
    (Written(c) /\ IdenticalQuadrants(c)) =>
      /\ tm_stddevs.px[c] = [valid |-> TRUE, value |-> [sqrt_of |-> Rat(0, 1)]]
      /\ tm_means.px[c] = [valid |-> TRUE, value |-> QuadrantMean(c, <<0, 0>>)]

\* C14, amended: the same when the common quadrant mean is above 0; when it
\* is not, the tile is invalid in both tables.
C14_IdenticalQuadrants ==
  \A c \in GridCells :
    (Written(c) /\ IdenticalQuadrants(c)) =>
      IF QuadrantMean(c, <<0, 0>>).num > 0
        THEN /\ tm_stddevs.px[c] = [valid |-> TRUE, value |-> [sqrt_of |-> Rat(0, 1)]]
             /\ tm_means.px[c] = [valid |-> TRUE, value |-> QuadrantMean(c, <<0, 0>>)]
        ELSE ~tm_stddevs.px[c].valid /\ ~tm_means.px[c].valid

\* C14 witness: a written tile of four identical quadrants that each hold
\* some invalid pixels, with a standard deviation of 0
C14_Witness ==
  /\ tm_pc = "returned"
  /\ GridCells = {<<0, 0>>}
  /\ IdenticalQuadrants(<<0, 0>>)
  /\ \E k \in 1..Len(tm_image[<<0, 0>>][<<0, 0>>]) :
       ~tm_image[<<0, 0>>][<<0, 0>>][k].px.valid
  /\ tm_stddevs.px[<<0, 0>>] = [valid |-> TRUE, value |-> [sqrt_of |-> Rat(0, 1)]]


---------------------------------------------------------------------------
(* The final write of sar_martinis: the two-level flood fill of the        *)
(* defuzzed raster, masked by the initial water mask.  Rasters are         *)
(* functions from cells <<col, row>> to values; defuzzed values are in     *)
(* hundredths, so 0.6 is 60 and 0.45 is 45.  The raster is one tile: its   *)
(* extent is far below TILE_EXPAND, so no halo cuts a region.              *)

FloodCols == 3

WATER_CLASS  == 255
LAND_CLASS   == 1
NODATA_CLASS == 0
TILE_EXPAND  == 256

final_flood_threshold == 60
water_grow_threshold  == 45

\* The cells of a raster of FloodCols columns and two rows
FloodCells == (0..(FloodCols - 1)) \X (0..1)

Adjacent4(p, q) ==
  \/ p[1] = q[1] /\ p[2] - q[2] \in {-1, 1}
  \/ p[2] = q[2] /\ p[1] - q[1] \in {-1, 1}

\* The breadth-first growth: cells of value >= low next to a reached cell
\* are reached, until no cell is added.
RECURSIVE GrowSeeds(_, _, _)
GrowSeeds(image, low, reached) ==
  LET next == reached \cup {p \in DOMAIN image :
                              /\ image[p] >= low
                              /\ \E q \in reached : Adjacent4(p, q)}
  IN IF next = reached THEN reached ELSE GrowSeeds(image, low, next)

two_threshold_fill(image, tile_expand, high, low, default_value, flood_value) ==
  LET seeds   == {p \in DOMAIN image : image[p] >= high}
      flooded == GrowSeeds(image, low, seeds)
  IN [p \in DOMAIN image |-> IF p \in flooded THEN flood_value ELSE default_value]

\* Pixel masks, one pixel at a time
create_mask(value, nodata) == IF value = nodata THEN InvalidPixel ELSE MaskedPixel(value)
copy_mask(value, mask)     == IF mask.valid THEN MaskedPixel(value) ELSE InvalidPixel
apply_mask(pixel, value)   == IF pixel.valid THEN pixel.value ELSE value

\* Variant of FloodFilled: the two thresholds handed over in the other order
FloodFilled_SwappedThresholds(defuzzed) == two_threshold_fill(defuzzed, TILE_EXPAND, water_grow_threshold, final_flood_threshold, LAND_CLASS, WATER_CLASS)

\* Variant of FloodFilled: the two class values handed over in the other order
FloodFilled_SwappedClasses(defuzzed) == two_threshold_fill(defuzzed, TILE_EXPAND, final_flood_threshold, water_grow_threshold, WATER_CLASS, LAND_CLASS)

\* The call of two_threshold_fill in the final write
FloodFilled(defuzzed) == two_threshold_fill(defuzzed, TILE_EXPAND, final_flood_threshold, water_grow_threshold, LAND_CLASS, WATER_CLASS)

\* Variant of FinalOutput: the flood fill written without the mask
FinalOutput_Unmasked(fill, initial) == fill

\* The raster handed to block_write_gdal_image.  create_mask is called with
\* the image alone, so its no-data value is the zero of the pixel type.
FinalOutput(fill, initial) == [p \in DOMAIN fill |-> apply_mask(copy_mask(fill[p], create_mask(initial[p], 0)), NODATA_CLASS)]

\* A raster of class values read as a raster of defuzzed values (hundredths)
ClassesAsValues(raster) == [p \in DOMAIN raster |-> raster[p] * 100]

---------------------------------------------------------------------------
(* SpecFlood: the final write on every small defuzzed raster, then the     *)
(* flood fill applied to its own output                                     *)

\* Below the low threshold, on it, and on the high threshold
DefuzzedLevels == {water_grow_threshold - 1, water_grow_threshold, final_flood_threshold}

\* Initial water masks: one class everywhere, one NODATA cell on land, or
\* one water cell in NODATA
InitialMasks ==
  {[p \in FloodCells |-> c] : c \in {NODATA_CLASS, LAND_CLASS, WATER_CLASS}}
  \cup {[p \in FloodCells |-> IF p = q THEN NODATA_CLASS ELSE LAND_CLASS] : q \in FloodCells}
  \cup {[p \in FloodCells |-> IF p = q THEN WATER_CLASS ELSE NODATA_CLASS] : q \in FloodCells}

InitFlood ==
  /\ fl_pc = "input"
  /\ \/ /\ fl_defuzzed \in [FloodCells -> DefuzzedLevels]
        /\ fl_initial = [p \in FloodCells |-> LAND_CLASS]
     \/ /\ fl_defuzzed \in [FloodCells -> {water_grow_threshold - 1, final_flood_threshold}]
        /\ fl_initial \in InitialMasks
  /\ fl_fill = <<>> /\ fl_final = <<>> /\ fl_again = <<>>
  /\ KIOff /\ GTOff /\ SelOff /\ FzOff /\ TmOff /\ PipeOff /\ DzOff /\ DvOff /\ BlOff /\ PrOff /\ ExOff /\ PaOff /\ MaOff /\ AxOff /\ WsOff /\ GrOff

WriteFinalOutput ==
  /\ fl_pc = "input"
  /\ fl_fill' = FloodFilled(fl_defuzzed)
  /\ fl_final' = FinalOutput(fl_fill', fl_initial)
  /\ fl_pc' = "written"
  /\ UNCHANGED <<fl_defuzzed, fl_initial, fl_again, kiVars, gtVars, selVars, fzVars, tmVars, pVars, dzVars, dvVars, blVars, prVars, exVars, paVars, maVars, axVars, wsVars, grVars>>

FillAgain ==
  /\ fl_pc = "written"
  /\ fl_again' = FloodFilled(ClassesAsValues(fl_fill))
  /\ fl_pc' = "refilled"
  /\ UNCHANGED <<fl_defuzzed, fl_initial, fl_fill, fl_final, kiVars, gtVars, selVars, fzVars, tmVars, pVars, dzVars, dvVars, blVars, prVars, exVars, paVars, maVars, axVars, wsVars, grVars>>

NextFlood == WriteFinalOutput \/ FillAgain

SpecFlood == InitFlood /\ [][NextFlood]_vars

\* C15: every pixel of the final raster is NODATA, LAND or WATER, and a
\* pixel that is NODATA in the initial water mask is NODATA in the final
\* raster whatever the flood fill gave it.
C15_FinalOutputClasses ==
  fl_pc \in {"written", "refilled"} =>
    \A p \in FloodCells :
      /\ fl_final[p] \in {NODATA_CLASS, LAND_CLASS, WATER_CLASS}
      /\ fl_initial[p] = NODATA_CLASS => fl_final[p] = NODATA_CLASS

\* C15 witness: a written raster with all three classes, where the flood
\* fill had made a NODATA pixel water
C15_Witness ==
  /\ fl_pc = "written"
  /\ \E p \in FloodCells : fl_initial[p] = NODATA_CLASS /\ fl_fill[p] = WATER_CLASS
  /\ \E p \in FloodCells : fl_final[p] = WATER_CLASS
  /\ \E p \in FloodCells : fl_final[p] = LAND_CLASS

\* A path inside the cells `through` from s to p, by steps between
\* 4-neighbours
RECURSIVE Connected4(_, _, _)
Connected4(through, s, p) ==
  \/ s = p
  \/ \E q \in through \ {s} : Adjacent4(s, q) /\ Connected4(through \ {s}, q, p)

\* C16: a pixel is WATER exactly when a path of pixels of defuzzed value
\* >= 0.45 joins it to a pixel of defuzzed value >= 0.60, and LAND otherwise.
C16_WaterIffConnectedToSeed ==
  fl_pc \in {"written", "refilled"} =>
    LET grow  == {p \in FloodCells : fl_defuzzed[p] >= 45}
        seeds == {p \in FloodCells : fl_defuzzed[p] >= 60}
    IN \A p \in FloodCells :
         /\ fl_fill[p] \in {LAND_CLASS, WATER_CLASS}
         /\ fl_fill[p] = WATER_CLASS <=>
              (p \in grow /\ \E s \in seeds : Connected4(grow, s, p))

\* C16 witness: a seeded region flooded in full next to an unseeded region
\* of values in [0.45, 0.60) left as land
C16_Witness ==
  /\ fl_pc = "written"
  /\ \E p \in FloodCells : fl_defuzzed[p] = water_grow_threshold /\ fl_fill[p] = WATER_CLASS
  /\ \E p \in FloodCells : fl_defuzzed[p] = water_grow_threshold /\ fl_fill[p] = LAND_CLASS

\* C17 as stated: the flood fill applied to its own output returns it
\* unchanged.
C17_FillIsIdempotent ==
  fl_pc = "refilled" => fl_again = fl_fill

\* C17: the flood fill applied to its own output makes every pixel WATER,
\* since both class values are above the high threshold; the output comes
\* back unchanged exactly when it held no LAND pixel.
C17_SecondFillFloodsAll ==
  fl_pc = "refilled" =>
    /\ \A p \in FloodCells : fl_again[p] = WATER_CLASS
    /\ fl_again = fl_fill <=> \A p \in FloodCells : fl_fill[p] # LAND_CLASS

\* C17 witness: a second fill of a raster that held land and water
C17_Witness ==
  /\ fl_pc = "refilled"
  /\ \E p \in FloodCells : fl_fill[p] = LAND_CLASS
  /\ \E p \in FloodCells : fl_fill[p] = WATER_CLASS


---------------------------------------------------------------------------
(* The blob sizer: blob_sizes.tif is get_blob_sizes of the water pixels of *)
(* the initial water mask.  The raster is one tile, far smaller than       *)
(* TILE_EXPAND, so every component lies inside one expanded tile.          *)

BlobCols == 3

MAX_BLOB_SIZE_METERS == 1000

\* The cells of a raster of BlobCols columns and two rows
BlobCells == (0..(BlobCols - 1)) \X (0..1)

create_mask_less_or_equal(value, nodata) == IF value <= nodata THEN InvalidPixel ELSE MaskedPixel(value)

\* The cells of `members` joined to the cells `reached` by steps between
\* 4-neighbours
RECURSIVE Component(_, _)
Component(members, reached) ==
  LET next == reached \cup {p \in members : \E q \in reached : Adjacent4(p, q)}
  IN IF next = reached THEN reached ELSE Component(members, next)

Min(a, b) == IF a <= b THEN a ELSE b

get_blob_sizes(mask, tile_expand, max_blob_size) ==
  LET blob == {p \in DOMAIN mask : mask[p].valid}
  IN [p \in DOMAIN mask |->
        IF p \in blob THEN Min(Cardinality(Component(blob, {p})), max_blob_size) ELSE 0]

\* uint32 max_blob_size = MAX_BLOB_SIZE_METERS / input_meters_per_pixel
max_blob_size(input_meters_per_pixel) == MAX_BLOB_SIZE_METERS \div input_meters_per_pixel

\* Variant of BlobSizes: every pixel that is not NODATA taken as water
BlobSizes_LandAsWater(initial, input_meters_per_pixel) == get_blob_sizes([p \in DOMAIN initial |-> create_mask_less_or_equal(initial[p], NODATA_CLASS)], TILE_EXPAND, max_blob_size(input_meters_per_pixel))

\* The raster handed to block_write_gdal_image for blob_sizes.tif
BlobSizes(initial, input_meters_per_pixel) == get_blob_sizes([p \in DOMAIN initial |-> create_mask_less_or_equal(initial[p], LAND_CLASS)], TILE_EXPAND, max_blob_size(input_meters_per_pixel))

---------------------------------------------------------------------------
(* SpecBlobs: the blob sizer on every small initial water mask *)

\* Resolutions that give max_blob_size 4, 3, 2, 1 and 0
BlobResolutions == {250, 300, 500, 1000, 2000}

InitBlobs ==
  /\ bl_pc = "input"
  /\ bl_initial \in [BlobCells -> {NODATA_CLASS, LAND_CLASS, WATER_CLASS}]
  /\ bl_mpp \in BlobResolutions
  /\ bl_sizes = <<>>
  /\ KIOff /\ GTOff /\ SelOff /\ FzOff /\ TmOff /\ PipeOff /\ DzOff /\ DvOff /\ FlOff /\ PrOff /\ ExOff /\ PaOff /\ MaOff /\ AxOff /\ WsOff /\ GrOff

WriteBlobSizes ==
  /\ bl_pc = "input"
  /\ bl_sizes' = BlobSizes(bl_initial, bl_mpp)
  /\ bl_pc' = "written"
  /\ UNCHANGED <<bl_initial, bl_mpp, kiVars, gtVars, selVars, fzVars, tmVars, pVars, dzVars, dvVars, flVars, prVars, exVars, paVars, maVars, axVars, wsVars, grVars>>

NextBlobs == WriteBlobSizes

SpecBlobs == InitBlobs /\ [][NextBlobs]_vars

\* C18: a pixel that is not water holds 0; a water pixel holds the smaller
\* of max_blob_size and the number of pixels of its 4-connected water
\* component; no pixel holds more than max_blob_size.
C18_BlobSizes ==
  bl_pc = "written" =>
    LET water == {p \in BlobCells : bl_initial[p] = 255}
        limit == 1000 \div bl_mpp
    IN \A p \in BlobCells :
         LET n == Cardinality({q \in water : Connected4(water, p, q)})
         IN /\ p \notin water => bl_sizes[p] = 0
            /\ p \in water => bl_sizes[p] = (IF n <= limit THEN n ELSE limit)
            /\ bl_sizes[p] <= limit

\* C18 witness: one component counted in full beside one clamped to
\* max_blob_size, with land and NODATA pixels at 0
C18_Witness ==
  /\ bl_pc = "written"
  /\ \E p, q \in BlobCells :
       /\ bl_sizes[p] = 1 /\ bl_sizes[q] = max_blob_size(bl_mpp)
       /\ Cardinality(Component({c \in BlobCells : bl_initial[c] = WATER_CLASS}, {q})) > bl_sizes[q]
       /\ bl_sizes[q] > 1
  /\ \E p \in BlobCells : bl_initial[p] = LAND_CLASS /\ bl_sizes[p] = 0
  /\ \E p \in BlobCells : bl_initial[p] = NODATA_CLASS /\ bl_sizes[p] = 0


---------------------------------------------------------------------------
(* The files a run of sar_martinis leaves behind (SpecPipeline) *)

\* The scratch artifacts of a run, as the spec lists them, with the dummy
\* raster of the tile statistics run
ScratchArtifacts ==
  {"preprocessed_image.tif", "blob_sizes.tif", "tile_means.tif",
   "tile_stddevs.tif", "initial_water_detect.tif", "initial_kept_tiles.tif",
   "final_kept_tiles.tif", "dummy.tif"}

\* C19: when sar_martinis has returned, every scratch artifact it created
\* has been deleted and only the final output raster remains.
C19_ScratchDeletedOnSuccess ==
  p_status = "done" =>
    /\ \A f \in ScratchArtifacts : p_files[f] = "absent"
    /\ p_files["radar_final_output.tif"] = "complete"

\* C20: when a stage has failed through vw_throw, the scratch artifacts
\* written up to then have been removed.
C20_ScratchRemovedOnFailure ==
  p_status = "failed" => \A f \in ScratchArtifacts : p_files[f] = "absent"


---------------------------------------------------------------------------
(* Missing georeferences (SpecPipeline) *)

\* C21: without a georeference of the input image sar_martinis fails at
\* its first step, before any stage has run or any file is written; without
\* a georeference of the DEM it fails at that check and the final output
\* raster is never written.
C21_MissingGeoreferenceIsFatal ==
  /\ ~p_env["have_georef"] =>
       /\ \A i \in 1..Len(p_started) : p_started[i] = "read_georeference"
       /\ \A f \in OutputFiles : p_files[f] = "absent"
       /\ Started("read_georeference") => p_status = "failed"
  /\ ~p_env["have_dem_georef"] =>
       /\ ~Started("final_output")
       /\ p_files["radar_final_output.tif"] = "absent"
       /\ Started("read_dem_georeference") => p_status = "failed"
       /\ p_status # "done"

\* C21 witness: the run has failed at the DEM's georeference, after the
\* initial water mask was written
C21_Witness ==
  /\ p_status = "failed"
  /\ p_env["have_georef"] /\ ~p_env["have_dem_georef"]
  /\ Started("read_dem_georeference")
  /\ p_files["initial_water_detect.tif"] = "complete"


---------------------------------------------------------------------------
(* Preprocessing: DN to dB, rescaling, and the mask of the preprocessed    *)
(* raster.  The input of the model is the output of median_filter_view,    *)
(* pixel by pixel.  dB values are in thousandths, and a stored pixel is    *)
(* carried as its numerator over DbScale.                                  *)

MaxDN == 5
PreprocessPixels == 2

GLOBAL_MIN == 0
GLOBAL_MAX == 35

\* floor(10000 * log10(v)) for v = 1..10: 10*log10(v) in thousandths of a dB
TenLog10 == <<0, 3010, 4771, 6020, 6989, 7781, 8450, 9030, 9542, 10000>>

Sentinel1DnToDb(value) == IF value = 0 THEN 0 ELSE TenLog10[value]

\* The denominator of a stored pixel: thousandths, over the input range
DbScale == 1000 * (GLOBAL_MAX - GLOBAL_MIN)

\* normalize(image, old_min, old_max, new_min, new_max) on one value in
\* thousandths; the result is the numerator over DbScale
normalize(value, old_min, old_max, new_min, new_max) ==
  (value - 1000 * old_min) * (new_max - new_min) + new_min * 1000 * (old_max - old_min)

\* The image handed to preprocess_sentinel1_image: as read when the file
\* declares a no-data value, behind create_mask(.., nodata_value = 0) when it
\* does not; the parameter is an ImageView<uint16>, which keeps the numbers
InputImage(dn, has_input_nodata) ==
  IF has_input_nodata
    THEN dn
    ELSE [i \in DOMAIN dn |-> create_mask(dn[i], 0).value]

\* The raster written to preprocessed_image.tif, read back behind
\* create_mask(.., 0)
preprocess_sentinel1_image(input_image) == [i \in DOMAIN input_image |-> create_mask(normalize(Sentinel1DnToDb(input_image[i]), GLOBAL_MIN, GLOBAL_MAX, PROC_MIN, PROC_MAX), 0)]

---------------------------------------------------------------------------
(* SpecPreprocess: preprocessing of every small strip of DN values *)

InitPreprocess ==
  /\ pr_pc = "input"
  /\ pr_nodata \in BOOLEAN
  /\ pr_dn \in [1..PreprocessPixels -> 0..MaxDN]
  /\ pr_image = <<>>
  /\ KIOff /\ GTOff /\ SelOff /\ FzOff /\ TmOff /\ PipeOff /\ DzOff /\ DvOff /\ FlOff /\ BlOff /\ ExOff /\ PaOff /\ MaOff /\ AxOff /\ WsOff /\ GrOff

Preprocess ==
  /\ pr_pc = "input"
  /\ pr_image' = preprocess_sentinel1_image(InputImage(pr_dn, pr_nodata))
  /\ pr_pc' = "done"
  /\ UNCHANGED <<pr_nodata, pr_dn, kiVars, gtVars, selVars, fzVars, tmVars, pVars, dzVars, dvVars, flVars, blVars, exVars, paVars, maVars, axVars, wsVars, grVars>>

NextPreprocess == Preprocess

SpecPreprocess == InitPreprocess /\ [][NextPreprocess]_vars

\* C22: in the preprocessed raster a pixel is invalid exactly when its
\* median-filtered DN is 0, whether or not the file declares a no-data
\* value: DN 0 is invalid and every DN > 0, DN 1 included, is valid.
C22_InvalidExactlyAtZeroDN ==
  pr_pc = "done" =>
    \A i \in 1..PreprocessPixels : pr_image[i].valid <=> pr_dn[i] > 0



---------------------------------------------------------------------------
(* SpecSelectMasked: the selector on tile tables with invalid cells *)

\* A flat bright tile, a dark heterogeneous tile, and a tile the statistics
\* engine marked invalid in both tables
MaskedTileKinds ==
  { [mean |-> MaskedPixel(9), stddev |-> MaskedPixel(0)],
    [mean |-> MaskedPixel(2), stddev |-> MaskedPixel(1000)],
    [mean |-> InvalidPixel,   stddev |-> InvalidPixel] }

InitSelectMasked ==
  /\ sel_pc = "input"
  /\ sel_dims \in TableShapes
  /\ \E kinds \in {k \in [CellsOf(sel_dims) -> MaskedTileKinds] :
                     \E t \in CellsOf(sel_dims) : k[t].mean.valid} :
       /\ tile_means   = [t \in CellsOf(sel_dims) |-> kinds[t].mean]
       /\ tile_stddevs = [t \in CellsOf(sel_dims) |-> kinds[t].stddev]
  /\ sel_kept = <<>>
  /\ sel_ret = 0
  /\ sel_files = {}
  /\ KIOff /\ GTOff /\ FzOff /\ TmOff /\ PipeOff /\ DzOff /\ DvOff /\ FlOff /\ BlOff /\ PrOff /\ ExOff /\ PaOff /\ MaOff /\ AxOff /\ WsOff /\ GrOff

SpecSelectMasked == InitSelectMasked /\ [][NextSelect]_vars

\* C23: a tile whose cell is invalid does not enter the global mean (the
\* mean is the same whatever number the invalid cell holds), is not in
\* n_prime_tiles and is not in kept_tile_indices.
C23_InvalidTilesNeverSelected ==
  sel_pc \in {"returned", "thrown"} =>
    \A t \in CellsOf(sel_dims) :
      ~tile_means[t].valid =>
        /\ \A v \in {1, 1000} :
             LET other == [tile_means EXCEPT ![t] = [valid |-> FALSE, value |-> v]]
                 a     == mean_channel_value(other)
                 b     == mean_channel_value(tile_means)
             IN a.num * b.den = b.num * a.den
        /\ LET n_prime_tiles == NPrimeTiles(sel_dims, tile_means, tile_stddevs)
           IN \A k \in 1..Len(n_prime_tiles) : n_prime_tiles[k] # t
        /\ \A k \in 1..Len(sel_kept) : sel_kept[k] # t

\* C23 witness: the selector returned tiles from a table that has an
\* invalid cell
C23_Witness ==
  /\ sel_pc = "returned"
  /\ Len(sel_kept) > 0
  /\ \E t \in CellsOf(sel_dims) : ~tile_means[t].valid


---------------------------------------------------------------------------
(* Exceptions defined with VW_DEFINE_EXCEPTION.  m_desc is a               *)
(* std::ostringstream: a character buffer with a put position.  str(s)     *)
(* replaces the buffer and, the stream not being opened at-end, leaves     *)
(* the put position at the start; a write stores its characters from the   *)
(* put position on, over those already there.                              *)

MaxText == 2
MaxCalls == 2

\* The strings of at most MaxText characters over two letters
Texts == UNION {[1..n -> {"a", "b"}] : n \in 0..MaxText}

\* std::ostringstream: str(s), operator<<, str()
ostringstream_str_set(s) == [buf |-> s, pos |-> 0]

ostringstream_write(stream, t) ==
  LET end == stream.pos + Len(t)
      len == IF end > Len(stream.buf) THEN end ELSE Len(stream.buf)
  IN [buf |-> [i \in 1..len |-> IF i > stream.pos /\ i <= end
                                  THEN t[i - stream.pos]
                                  ELSE stream.buf[i]],
      pos |-> end]

ostringstream_str(stream) == stream.buf

\* Exception(std::string const& s) { m_desc << s; }; Exception() is the case s = ""
Exception(s) == ostringstream_write([buf |-> <<>>, pos |-> 0], s)

\* std::string desc() const { return m_desc.str(); }
desc(e) == ostringstream_str(e)

\* name& operator<<(T const& t) { m_desc << t; return *this; }
operator_stream(e, t) == ostringstream_write(e, t)

\* name& set(std::string const& s) { m_desc.str(s); return *this; }
set(e, s) == ostringstream_str_set(s)

\* name& reset() { m_desc.str(""); return *this; }
reset(e) == ostringstream_str_set(<<>>)

\* operator=(e): m_desc.str(e.m_desc.str())
operator_assign(e, other) == ostringstream_str_set(desc(other))

---------------------------------------------------------------------------
(* SpecException: any MaxCalls calls on an exception built from any text *)

InitException ==
  /\ ex_pc = "live"
  /\ \E s \in Texts : ex_desc = Exception(s)
  /\ ex_log = <<>>
  /\ KIOff /\ GTOff /\ SelOff /\ FzOff /\ TmOff /\ PipeOff /\ DzOff /\ DvOff /\ FlOff /\ BlOff /\ PrOff /\ PaOff /\ MaOff /\ AxOff /\ WsOff /\ GrOff

CallSet ==
  /\ ex_pc = "live" /\ Len(ex_log) < MaxCalls
  /\ \E s \in Texts :
       /\ ex_desc' = set(ex_desc, s)
       /\ ex_log' = Append(ex_log, [call |-> "set", text |-> s])
  /\ UNCHANGED <<ex_pc, kiVars, gtVars, selVars, fzVars, tmVars, pVars, dzVars, dvVars, flVars, blVars, prVars, paVars, maVars, axVars, wsVars, grVars>>

CallReset ==
  /\ ex_pc = "live" /\ Len(ex_log) < MaxCalls
  /\ ex_desc' = reset(ex_desc)
  /\ ex_log' = Append(ex_log, [call |-> "reset", text |-> <<>>])
  /\ UNCHANGED <<ex_pc, kiVars, gtVars, selVars, fzVars, tmVars, pVars, dzVars, dvVars, flVars, blVars, prVars, paVars, maVars, axVars, wsVars, grVars>>

CallAssign ==
  /\ ex_pc = "live" /\ Len(ex_log) < MaxCalls
  /\ \E s \in Texts :
       /\ ex_desc' = operator_assign(ex_desc, Exception(s))
       /\ ex_log' = Append(ex_log, [call |-> "assign", text |-> s])
  /\ UNCHANGED <<ex_pc, kiVars, gtVars, selVars, fzVars, tmVars, pVars, dzVars, dvVars, flVars, blVars, prVars, paVars, maVars, axVars, wsVars, grVars>>

CallStream ==
  /\ ex_pc = "live" /\ Len(ex_log) < MaxCalls
  /\ \E t \in Texts :
       /\ ex_desc' = operator_stream(ex_desc, t)
       /\ ex_log' = Append(ex_log, [call |-> "stream", text |-> t])
  /\ UNCHANGED <<ex_pc, kiVars, gtVars, selVars, fzVars, tmVars, pVars, dzVars, dvVars, flVars, blVars, prVars, paVars, maVars, axVars, wsVars, grVars>>

NextException == CallSet \/ CallReset \/ CallAssign \/ CallStream

SpecException == InitException /\ [][NextException]_vars

\* C24: after e.set(s) << t the message is s followed by t; after
\* e.reset() << t it is t; after e = other; e << t it is the text of other
\* followed by t.
C24_StreamingAppends ==
  (ex_pc = "live" /\ Len(ex_log) >= 2) =>
    LET n    == Len(ex_log)
        prev == ex_log[n - 1]
        last == ex_log[n]
    IN (last.call = "stream" /\ prev.call \in {"set", "reset", "assign"}) =>
         desc(ex_desc) = prev.text \o last.text


---------------------------------------------------------------------------
(* ProceduralPixelAccessor over a view whose pixel at (c, r, p) is the     *)
(* triple <<c, r, p>>, so that a dereference tells the position read       *)

AccessorStart == 1
AccessorReach == 2
AccessorStep == 1

view(c, r, p) == <<c, r, p>>

ProceduralPixelAccessor(c, r, p) == [m_c |-> c, m_r |-> r, m_p |-> p]

Procedural_next_col(a)   == [a EXCEPT !.m_c = @ + 1]

\* Variant of Procedural_prev_col: the column moves the other way
Procedural_prev_col_Forward(a) == [a EXCEPT !.m_c = @ + 1]

Procedural_prev_col(a) == [a EXCEPT !.m_c = @ - 1]
Procedural_next_row(a)   == [a EXCEPT !.m_r = @ + 1]
Procedural_prev_row(a)   == [a EXCEPT !.m_r = @ - 1]
Procedural_next_plane(a) == [a EXCEPT !.m_p = @ + 1]
Procedural_prev_plane(a) == [a EXCEPT !.m_p = @ - 1]
Procedural_advance(a, dc, dr, dp) ==
  [m_c |-> a.m_c + dc, m_r |-> a.m_r + dr, m_p |-> a.m_p + dp]
Procedural_deref(a) == view(a.m_c, a.m_r, a.m_p)

---------------------------------------------------------------------------
(* SpecProcedural: any calls that keep the net displacement within         *)
(* AccessorReach on each axis                                              *)

InitProcedural ==
  /\ pa_pc = "live"
  /\ pa_start \in [c : 0..AccessorStart, r : 0..AccessorStart, p : 0..AccessorStart]
  /\ pa_acc = ProceduralPixelAccessor(pa_start.c, pa_start.r, pa_start.p)
  /\ pa_net = [c |-> 0, r |-> 0, p |-> 0]
  /\ pa_value = <<>>
  /\ KIOff /\ GTOff /\ SelOff /\ FzOff /\ TmOff /\ PipeOff /\ DzOff /\ DvOff /\ FlOff /\ BlOff /\ PrOff /\ ExOff /\ MaOff /\ AxOff /\ WsOff /\ GrOff

\* A call that moves the accessor to `acc` and adds (dc, dr, dp) to the net
\* displacement
ProceduralMove(acc, dc, dr, dp) ==
  /\ pa_pc = "live"
  /\ LET net == [c |-> pa_net.c + dc, r |-> pa_net.r + dr, p |-> pa_net.p + dp]
     IN /\ \A x \in {net.c, net.r, net.p} : -AccessorReach <= x /\ x <= AccessorReach
        /\ pa_net' = net
  /\ pa_acc' = acc
  /\ pa_value' = <<>>
  /\ UNCHANGED <<pa_pc, pa_start, kiVars, gtVars, selVars, fzVars, tmVars, pVars, dzVars, dvVars, flVars, blVars, prVars, exVars, maVars, axVars, wsVars, grVars>>

ProceduralNextCol   == ProceduralMove(Procedural_next_col(pa_acc), 1, 0, 0)
ProceduralPrevCol   == ProceduralMove(Procedural_prev_col(pa_acc), -1, 0, 0)
ProceduralNextRow   == ProceduralMove(Procedural_next_row(pa_acc), 0, 1, 0)
ProceduralPrevRow   == ProceduralMove(Procedural_prev_row(pa_acc), 0, -1, 0)
ProceduralNextPlane == ProceduralMove(Procedural_next_plane(pa_acc), 0, 0, 1)
ProceduralPrevPlane == ProceduralMove(Procedural_prev_plane(pa_acc), 0, 0, -1)

ProceduralAdvance ==
  \E dc, dr, dp \in (-AccessorStep)..AccessorStep :
    ProceduralMove(Procedural_advance(pa_acc, dc, dr, dp), dc, dr, dp)

ProceduralDeref ==
  /\ pa_pc = "live"
  /\ pa_value' = Procedural_deref(pa_acc)
  /\ UNCHANGED <<pa_pc, pa_start, pa_acc, pa_net, kiVars, gtVars, selVars, fzVars, tmVars, pVars, dzVars, dvVars, flVars, blVars, prVars, exVars, maVars, axVars, wsVars, grVars>>

NextProcedural ==
  \/ ProceduralNextCol \/ ProceduralPrevCol
  \/ ProceduralNextRow \/ ProceduralPrevRow
  \/ ProceduralNextPlane \/ ProceduralPrevPlane
  \/ ProceduralAdvance
  \/ ProceduralDeref

SpecProcedural == InitProcedural /\ [][NextProcedural]_vars

\* C25: after any calls the accessor dereferences to the pixel of the view
\* at the construction position plus the net displacement of the calls,
\* whatever their order.
C25_PositionIsStartPlusNet ==
  (pa_pc = "live" /\ pa_value # <<>>) =>
    pa_value = <<pa_start.c + pa_net.c, pa_start.r + pa_net.r, pa_start.p + pa_net.p>>

\* C25 witness: a dereference after calls that moved the accessor back by
\* a column and on by two rows and a plane
C25_Witness ==
  /\ pa_pc = "live"
  /\ pa_value # <<>>
  /\ pa_net = [c |-> -1, r |-> 2, p |-> 1]
  /\ pa_start = [c |-> 1, r |-> 0, p |-> 1]


---------------------------------------------------------------------------
(* MemoryStridingPixelAccessor built with VW_ENABLE_BOUNDS_CHECK.  A       *)
(* pointer is carried as its offset, in pixels, from the start of the      *)
(* image's storage.                                                        *)

MemoryDim == 2

MemoryStridingPixelAccessor(ptr, cstride, rstride, pstride, cols, rows, planes) ==
  [m_base_ptr |-> ptr, m_num_pixels |-> cols * rows * planes, m_ptr |-> ptr,
   m_cstride |-> cstride, m_rstride |-> rstride, m_pstride |-> pstride]

Memory_next_col(a)   == [a EXCEPT !.m_ptr = @ + a.m_cstride]
Memory_prev_col(a)   == [a EXCEPT !.m_ptr = @ - a.m_cstride]
Memory_next_row(a)   == [a EXCEPT !.m_ptr = @ + a.m_rstride]
Memory_prev_row(a)   == [a EXCEPT !.m_ptr = @ - a.m_rstride]
Memory_next_plane(a) == [a EXCEPT !.m_ptr = @ + a.m_pstride]
Memory_prev_plane(a) == [a EXCEPT !.m_ptr = @ - a.m_pstride]
Memory_advance(a, dc, dr, dp) ==
  [a EXCEPT !.m_ptr = @ + dc * a.m_cstride + dr * a.m_rstride + dp * a.m_pstride]

\* operator*: the bounds check, then the pixel
Memory_deref(a) ==
  LET delta == a.m_ptr - a.m_base_ptr
  IN IF delta < 0 \/ delta >= a.m_num_pixels THEN "ArgumentErr" ELSE "pixel"

\* The strides of an image of the given size: rows of pixels one after the
\* other, columns one after the other, planes interleaved pixel by pixel,
\* rows padded by one pixel, and rows stored right to left (the pointer
\* handed to the constructor is then the last pixel of the first row, and
\* the storage starts cols - 1 pixels before it)
StrideLayouts(cols, rows, planes) ==
  { [cstride |-> 1, rstride |-> cols, pstride |-> cols * rows, ptr |-> 0, size |-> cols * rows * planes],
    [cstride |-> rows, rstride |-> 1, pstride |-> cols * rows, ptr |-> 0, size |-> cols * rows * planes],
    [cstride |-> planes, rstride |-> cols * planes, pstride |-> 1, ptr |-> 0, size |-> cols * rows * planes],
    [cstride |-> 1, rstride |-> cols + 1, pstride |-> (cols + 1) * rows, ptr |-> 0, size |-> (cols + 1) * rows * planes],
    [cstride |-> -1, rstride |-> cols, pstride |-> cols * rows, ptr |-> cols - 1, size |-> cols * rows * planes] }

---------------------------------------------------------------------------
(* SpecMemory: any calls that keep the position within one pixel of the    *)
(* image on each axis                                                      *)

InitMemory ==
  /\ ma_pc = "live"
  /\ \E cols, rows, planes \in 1..MemoryDim :
       \E layout \in StrideLayouts(cols, rows, planes) :
         /\ ma_args = [cols |-> cols, rows |-> rows, planes |-> planes, layout |-> layout]
         /\ ma_acc = MemoryStridingPixelAccessor(layout.ptr, layout.cstride, layout.rstride,
                                                 layout.pstride, cols, rows, planes)
  /\ ma_pos = [c |-> 0, r |-> 0, p |-> 0]
  /\ ma_result = "none"
  /\ KIOff /\ GTOff /\ SelOff /\ FzOff /\ TmOff /\ PipeOff /\ DzOff /\ DvOff /\ FlOff /\ BlOff /\ PrOff /\ ExOff /\ PaOff /\ AxOff /\ WsOff /\ GrOff

\* A call that moves the accessor to `acc`, and the position by (dc, dr, dp)
MemoryMove(acc, dc, dr, dp) ==
  /\ ma_pc = "live"
  /\ LET pos == [c |-> ma_pos.c + dc, r |-> ma_pos.r + dr, p |-> ma_pos.p + dp]
     IN /\ -1 <= pos.c /\ pos.c <= ma_args.cols
        /\ -1 <= pos.r /\ pos.r <= ma_args.rows
        /\ -1 <= pos.p /\ pos.p <= ma_args.planes
        /\ ma_pos' = pos
  /\ ma_acc' = acc
  /\ ma_result' = "none"
  /\ UNCHANGED <<ma_pc, ma_args, kiVars, gtVars, selVars, fzVars, tmVars, pVars, dzVars, dvVars, flVars, blVars, prVars, exVars, paVars, axVars, wsVars, grVars>>

MemoryNextCol   == MemoryMove(Memory_next_col(ma_acc), 1, 0, 0)
MemoryPrevCol   == MemoryMove(Memory_prev_col(ma_acc), -1, 0, 0)
MemoryNextRow   == MemoryMove(Memory_next_row(ma_acc), 0, 1, 0)
MemoryPrevRow   == MemoryMove(Memory_prev_row(ma_acc), 0, -1, 0)
MemoryNextPlane == MemoryMove(Memory_next_plane(ma_acc), 0, 0, 1)
MemoryPrevPlane == MemoryMove(Memory_prev_plane(ma_acc), 0, 0, -1)

MemoryAdvance ==
  \E dc, dr, dp \in (-AccessorStep)..AccessorStep :
    MemoryMove(Memory_advance(ma_acc, dc, dr, dp), dc, dr, dp)

MemoryDeref ==
  /\ ma_pc = "live"
  /\ ma_result' = Memory_deref(ma_acc)
  /\ UNCHANGED <<ma_pc, ma_args, ma_acc, ma_pos, kiVars, gtVars, selVars, fzVars, tmVars, pVars, dzVars, dvVars, flVars, blVars, prVars, exVars, paVars, axVars, wsVars, grVars>>

NextMemory ==
  \/ MemoryNextCol \/ MemoryPrevCol
  \/ MemoryNextRow \/ MemoryPrevRow
  \/ MemoryNextPlane \/ MemoryPrevPlane
  \/ MemoryAdvance
  \/ MemoryDeref

SpecMemory == InitMemory /\ [][NextMemory]_vars

\* C26: operator* raises ArgumentErr exactly when the accessor points
\* outside the storage of the image, and never at a position (c, r, p) with
\* 0 <= c < cols, 0 <= r < rows, 0 <= p < planes, whatever the strides.
C26_ThrowsExactlyOutsideStorage ==
  (ma_pc = "live" /\ ma_result # "none") =>
    LET layout == ma_args.layout
        offset == layout.ptr + ma_pos.c * layout.cstride + ma_pos.r * layout.rstride
                    + ma_pos.p * layout.pstride
        inside == /\ 0 <= ma_pos.c /\ ma_pos.c < ma_args.cols
                  /\ 0 <= ma_pos.r /\ ma_pos.r < ma_args.rows
                  /\ 0 <= ma_pos.p /\ ma_pos.p < ma_args.planes
    IN /\ ma_result = "ArgumentErr" <=> (offset < 0 \/ offset >= layout.size)
       /\ inside => ma_result = "pixel"

---------------------------------------------------------------------------
(* SpecAxes: the statistics engine, the selector and the aggregator in a row,
   as sar_martinis calls them, on grids that need not be square *)

\* The grids have 1 .. AxisMaxTiles tiles across and down
AxisMaxTiles == 3

\* The kinds of block of SpecAxes: kind 0 is flat and bright (every pixel 9),
\* kind k > 0 is dark and uneven: its left quadrants hold k, its right
\* quadrants 3k, so that its mean is 2k and the stddev of its sub-means is k.
AxisKinds == 0..2

AxisTile(kind, n) ==
  [q \in Quadrants |->
     QuadrantRuns(n, n, IF kind = 0 THEN 9 ELSE IF q[1] = 0 THEN kind ELSE 3 * kind)]

\* The kind of the block a tile was built from
AxisKindOf(tile) ==
  IF tile[<<0, 0>>][1].px.value = 9 THEN 0 ELSE tile[<<0, 0>>][1].px.value

\* The images of a grid of whole tiles, with up to one more pixel on the
\* right and at the bottom: one or two dark blocks, every other block bright
AxisImages ==
  LET n == QuadrantPixels(BBox2i(0, 0, TileSize, TileSize))
      kinds(b1, k1, b2, k2) ==
        [b \in {b1, b2} |-> IF b = b1 THEN k1 ELSE k2]
  IN UNION {
       {[size  |-> [w |-> cols * TileSize + dw, h |-> rows * TileSize + dh],
         image |-> [b \in (0..cols) \X (0..rows) |->
                      IF b \in {b1, b2}
                        THEN AxisTile(kinds(b1, k1, b2, k2)[b], n)
                        ELSE AxisTile(0, n)]] :
          b1 \in (0..(cols - 1)) \X (0..(rows - 1)),
          b2 \in (0..(cols - 1)) \X (0..(rows - 1)),
          k1 \in AxisKinds \ {0}, k2 \in AxisKinds \ {0}} :
       cols \in 1..AxisMaxTiles, rows \in 1..AxisMaxTiles,
       dw \in 0..1, dh \in 0..1}

\* The integer a float of the tables holds (the tables of SpecAxes hold
\* whole numbers; the selector's tables are integers)
WholeNumber(q) == q.num \div q.den
WholeRoot(q)   == CHOOSE s \in 0..q.sqrt_of.num : s * s * q.sqrt_of.den = q.sqrt_of.num

\* The tables generate_tile_means returns, as the selector reads them
TableOfMeans(table) ==
  [t \in DOMAIN table.px |->
     IF table.px[t].valid THEN MaskedPixel(WholeNumber(table.px[t].value))
                         ELSE InvalidPixel]
TableOfStddevs(table) ==
  [t \in DOMAIN table.px |->
     IF table.px[t].valid THEN MaskedPixel(WholeRoot(table.px[t].value))
                         ELSE InvalidPixel]

RECURSIVE WriteBlocks(_, _, _, _, _)
\* block_write_gdal_image: prerasterize of every block (each block writes its
\* own cell, so the order of the blocks does not matter)
WriteBlocks(image, todo, tile_size, means, stddevs) ==
  IF todo = {} THEN [means |-> means, stddevs |-> stddevs]
  ELSE LET bbox  == CHOOSE b \in todo : TRUE
           after == prerasterize(image, bbox, tile_size, means, stddevs)
       IN WriteBlocks(image, todo \ {bbox}, tile_size, after.means, after.stddevs)

\* generate_tile_means: the tables are sized (num_boxes_x, num_boxes_y) by the
\* constructor of ImageTileMeansView and filled by the block writer
generate_tile_means(image, size, tile_size, num_boxes_x, num_boxes_y) ==
  WriteBlocks(image, BlockWriteBoxes(size, tile_size), tile_size,
              ImageView(num_boxes_x, num_boxes_y),
              ImageView(num_boxes_x, num_boxes_y))

InitAxes ==
  /\ \E input \in AxisImages :
       /\ ax_size = input.size
       /\ ax_image = input.image
  /\ ax_pc = "preprocessed"
  /\ ax_boxes = <<>>
  /\ ax_num_boxes = [x |-> 0, y |-> 0]
  /\ ax_means = <<>>
  /\ ax_stddevs = <<>>
  /\ ax_kept = <<>>
  /\ ax_rois = <<>>
  /\ KIOff /\ GTOff /\ SelOff /\ FzOff /\ TmOff /\ PipeOff /\ DzOff /\ DvOff /\ FlOff /\ BlOff /\ PrOff /\ ExOff /\ PaOff /\ MaOff /\ WsOff /\ GrOff

\* divide_roi(bounding_box(preprocessed_image), tile_size, large_tile_boxes,
\* false); num_boxes_y = large_tile_boxes.size(); num_boxes_x =
\* large_tile_boxes[0].size()
AxesDivideRoi ==
  /\ ax_pc = "preprocessed"
  /\ LET large_tile_boxes ==
           divide_roi(BBox2i(0, 0, ax_size.w, ax_size.h), TileSize, FALSE).rois
     IN /\ ax_boxes' = large_tile_boxes
        /\ ax_num_boxes' = [y |-> Len(large_tile_boxes),
                            x |-> Len(large_tile_boxes[1])]
  /\ ax_pc' = "divided"
  /\ UNCHANGED <<ax_size, ax_image, ax_means, ax_stddevs, ax_kept, ax_rois,
                 kiVars, gtVars, selVars, fzVars, tmVars, pVars, dzVars, dvVars, flVars, blVars, prVars, exVars, paVars, maVars, wsVars, grVars>>

AxesGenerateTileMeans ==
  /\ ax_pc = "divided"
  /\ LET tables == generate_tile_means(ax_image, ax_size, TileSize,
                                       ax_num_boxes.x, ax_num_boxes.y)
     IN /\ ax_means' = tables.means
        /\ ax_stddevs' = tables.stddevs
  /\ ax_pc' = "tables"
  /\ UNCHANGED <<ax_size, ax_image, ax_boxes, ax_num_boxes, ax_kept, ax_rois,
                 kiVars, gtVars, selVars, fzVars, tmVars, pVars, dzVars, dvVars, flVars, blVars, prVars, exVars, paVars, maVars, wsVars, grVars>>

\* select_best_tiles(tile_means, tile_stddevs, kept_tile_indices, ...); a
\* LogicErr ends the pipeline
AxesSelectBestTiles ==
  /\ ax_pc = "tables"
  /\ LET res == select_best_tiles([cols |-> ax_means.cols, rows |-> ax_means.rows],
                                  TableOfMeans(ax_means), TableOfStddevs(ax_stddevs))
     IN /\ ax_kept' = res.kept
        /\ ax_pc' = IF res.thrown THEN "failed" ELSE "selected"
  /\ UNCHANGED <<ax_size, ax_image, ax_boxes, ax_num_boxes, ax_means, ax_stddevs, ax_rois,
                 kiVars, gtVars, selVars, fzVars, tmVars, pVars, dzVars, dvVars, flVars, blVars, prVars, exVars, paVars, maVars, wsVars, grVars>>

\* compute_global_threshold: the roi whose histogram each iteration builds
AxesComputeGlobalThreshold ==
  /\ ax_pc = "selected"
  /\ ax_rois' = [k \in 1..Len(ax_kept) |-> KeptTileRoi(ax_kept, ax_boxes, k - 1)]
  /\ ax_pc' = "aggregated"
  /\ UNCHANGED <<ax_size, ax_image, ax_boxes, ax_num_boxes, ax_means, ax_stddevs, ax_kept,
                 kiVars, gtVars, selVars, fzVars, tmVars, pVars, dzVars, dvVars, flVars, blVars, prVars, exVars, paVars, maVars, wsVars, grVars>>

NextAxes ==
  \/ AxesDivideRoi
  \/ AxesGenerateTileMeans
  \/ AxesSelectBestTiles
  \/ AxesComputeGlobalThreshold

SpecAxes == InitAxes /\ [][NextAxes]_vars

\* The image block with origin (c*tile_size, r*tile_size)
AxisBlock(c, r) == BBox2i(c * TileSize, r * TileSize, TileSize, TileSize)

\* The mean and the stddev the tables must hold for a block of a given kind
AxisStatistics(kind) ==
  IF kind = 0
    THEN [mean   |-> MaskedPixel(Rat(9, 1)),
          stddev |-> MaskedPixel([sqrt_of |-> Rat(0, 1)])]
    ELSE [mean   |-> MaskedPixel(Rat(2 * kind, 1)),
          stddev |-> MaskedPixel([sqrt_of |-> Rat(kind * kind, 1)])]

\* C27: the axis order is the same in the engine, the selector and the
\* aggregator, on square and non-square grids: the tables have num_boxes_x
\* columns and num_boxes_y rows; cell (col = c, row = r) of the tables holds
\* the statistics of the block with origin (c*tile_size, r*tile_size); a kept
\* tile Vector2i(c, r) names a dark block by (column, row); and the roi the
\* aggregator takes for it, large_tile_boxes[r][c], is that same block.
C27_AxisOrderConsistent ==
  LET nx == FloorDiv(ax_size.w, TileSize)
      ny == FloorDiv(ax_size.h, TileSize)
      kind(c, r) == AxisKindOf(ax_image[<<c, r>>])
  IN /\ ax_pc \in {"divided", "tables", "selected", "failed", "aggregated"} =>
          /\ ax_num_boxes = [x |-> nx, y |-> ny]
          /\ \A c \in 0..(nx - 1), r \in 0..(ny - 1) :
               ax_boxes[r + 1][c + 1] = AxisBlock(c, r)
     /\ ax_pc \in {"tables", "selected", "failed", "aggregated"} =>
          /\ ax_means.cols = nx /\ ax_means.rows = ny
          /\ ax_stddevs.cols = nx /\ ax_stddevs.rows = ny
          /\ DOMAIN ax_means.px = (0..(nx - 1)) \X (0..(ny - 1))
          /\ DOMAIN ax_stddevs.px = (0..(nx - 1)) \X (0..(ny - 1))
          /\ \A c \in 0..(nx - 1), r \in 0..(ny - 1) :
               /\ ax_means.px[<<c, r>>] = AxisStatistics(kind(c, r)).mean
               /\ ax_stddevs.px[<<c, r>>] = AxisStatistics(kind(c, r)).stddev
     /\ ax_pc \in {"selected", "aggregated"} =>
          /\ Len(ax_kept) > 0
          /\ \A k \in 1..Len(ax_kept) :
               /\ ax_kept[k][1] \in 0..(nx - 1)
               /\ ax_kept[k][2] \in 0..(ny - 1)
               /\ kind(ax_kept[k][1], ax_kept[k][2]) # 0
     /\ ax_pc = "aggregated" =>
          /\ Len(ax_rois) = Len(ax_kept)
          /\ \A k \in 1..Len(ax_kept) :
               /\ ax_rois[k] = AxisBlock(ax_kept[k][1], ax_kept[k][2])
               /\ AxisKindOf(CropTile(ax_image, ax_rois[k], TileSize)) # 0

\* A grid with more columns than rows whose kept tile lies in a column that
\* is not a row of the grid, and a grid with more rows than columns whose
\* kept tile lies in a row that is not a column, reach the aggregator
C27_Witness ==
  /\ ax_pc = "aggregated"
  /\ ax_num_boxes.x # ax_num_boxes.y
  /\ \E k \in 1..Len(ax_kept) :
       \/ ax_kept[k][1] >= ax_num_boxes.y
       \/ ax_kept[k][2] >= ax_num_boxes.x

---------------------------------------------------------------------------
(* The tiles of divide_roi as sets of pixels (SpecDivide) *)

\* The pixels of a box: min() is included, max() is not
BoxPixels(box) ==
  (box.x .. (box.x + box.w - 1)) \X (box.y .. (box.y + box.h - 1))

\* C28: with include_partials = true the tiles of divide_roi partition the
\* ROI, wherever its minimum corner lies and whatever the size: every pixel
\* of the ROI lies in exactly one tile and no tile holds a pixel outside the
\* ROI.
C28_TilesPartitionRoi ==
  (dv_pc = "done" /\ dv_args.include_partials) =>
    LET grid  == dv_result.rois
        tiles == {<<r, c>> : r \in 1..Len(grid),
                             c \in 1..CeilDiv(dv_args.full_roi.w, dv_args.size)}
    IN /\ \A p \in BoxPixels(dv_args.full_roi) :
            Cardinality({t \in tiles : p \in BoxPixels(grid[t[1]][t[2]])}) = 1
       /\ \A t \in tiles :
            BoxPixels(grid[t[1]][t[2]]) \subseteq BoxPixels(dv_args.full_roi)

---------------------------------------------------------------------------
(* SpecWater: from the initial water mask to the final raster -- the blob
   sizes, the fuzzy score of the blob size, the defuzzed value and the
   masked flood fill, on every small initial water mask *)

MIN_BLOB_SIZE_METERS == 250

\* uint32 min_blob_size = MIN_BLOB_SIZE_METERS / input_meters_per_pixel
min_blob_size(input_meters_per_pixel) == MIN_BLOB_SIZE_METERS \div input_meters_per_pixel

\* Variant of blob_fuzz that scores the blob size with the Z functor.
blob_fuzz_ZFunctor(blob_size, input_meters_per_pixel) ==
  FuzzyMembershipZFunctor_OnPixel(min_blob_size(input_meters_per_pixel),
                                  max_blob_size(input_meters_per_pixel),
                                  MaskedPixel(blob_size))

\* One pixel of blob_fuzz: FuzzyFunctorS(min_blob_size, max_blob_size) on a
\* pixel of blob_sizes (a uint32, read as a valid PixelMask<float>)
blob_fuzz(blob_size, input_meters_per_pixel) ==
  FuzzyMembershipSFunctor_OnPixel(min_blob_size(input_meters_per_pixel),
                                  max_blob_size(input_meters_per_pixel),
                                  MaskedPixel(blob_size))

\* The membership functors return unreduced fractions; DefuzzFunctor reads
\* numbers
Reduced(pixel) == [pixel EXCEPT !.value = Rat(pixel.value.num, pixel.value.den)]

\* A defuzzed pixel in hundredths, rounded down (the thresholds 0.6 and 0.45
\* are whole hundredths, so comparing with them is unchanged)
Hundredths(pixel) == (100 * pixel.value.num) \div pixel.value.den

\* Resolutions that give (min_blob_size, max_blob_size) = (2, 8), (1, 4) and
\* (0, 0)
WaterResolutions == {125, 250, 2000}

InitWater ==
  /\ ws_pc = "thresholded"
  /\ ws_initial \in [BlobCells -> {NODATA_CLASS, LAND_CLASS, WATER_CLASS}]
  /\ ws_mpp \in WaterResolutions
  /\ ws_other \in {Rat(1, 2), Rat(1, 1)}
  /\ ws_blob_sizes = <<>>
  /\ ws_defuzzed = <<>>
  /\ ws_final = <<>>
  /\ KIOff /\ GTOff /\ SelOff /\ FzOff /\ TmOff /\ PipeOff /\ DzOff /\ DvOff /\ FlOff /\ BlOff /\ PrOff /\ ExOff /\ PaOff /\ MaOff /\ AxOff /\ GrOff

\* blob_sizes.tif is written and read back
WaterWriteBlobSizes ==
  /\ ws_pc = "thresholded"
  /\ ws_blob_sizes' = BlobSizes(ws_initial, ws_mpp)
  /\ ws_pc' = "blobs"
  /\ UNCHANGED <<ws_initial, ws_mpp, ws_other, ws_defuzzed, ws_final,
                 kiVars, gtVars, selVars, fzVars, tmVars, pVars, dzVars, dvVars, flVars, blVars, prVars, exVars, paVars, maVars, axVars, grVars>>

\* The final write: blob_fuzz and defuzzed are views evaluated pixel by pixel
\* under two_threshold_fill, whose output is masked by the initial water mask
WaterWriteFinalOutput ==
  /\ ws_pc = "blobs"
  /\ LET other == MaskedPixel(ws_other)
         defuzzed == [p \in BlobCells |->
                        DefuzzFunctor(other, other, other,
                                      Reduced(blob_fuzz(ws_blob_sizes[p], ws_mpp)))]
         values == [p \in BlobCells |-> Hundredths(defuzzed[p])]
     IN /\ ws_defuzzed' = values
        /\ ws_final' = FinalOutput(FloodFilled(values), ws_initial)
  /\ ws_pc' = "written"
  /\ UNCHANGED <<ws_initial, ws_mpp, ws_other, ws_blob_sizes,
                 kiVars, gtVars, selVars, fzVars, tmVars, pVars, dzVars, dvVars, flVars, blVars, prVars, exVars, paVars, maVars, axVars, grVars>>

NextWater == WaterWriteBlobSizes \/ WaterWriteFinalOutput

SpecWater == InitWater /\ [][NextWater]_vars

\* C29: when min_blob_size >= 1, a pixel the initial threshold classified
\* LAND has blob size 0 and defuzzed value 0, below the grow threshold, and
\* is not WATER in the final raster; every WATER pixel of the final raster
\* is a WATER pixel of the initial water mask.
C29_LandNeverBecomesWater ==
  (ws_pc = "written" /\ 250 \div ws_mpp >= 1) =>
    /\ \A p \in BlobCells :
         ws_initial[p] = 1 =>
           /\ ws_blob_sizes[p] = 0
           /\ ws_defuzzed[p] = 0
           /\ ws_defuzzed[p] < 45
           /\ ws_final[p] # 255
    /\ \A p \in BlobCells : ws_final[p] = 255 => ws_initial[p] = 255

\* C29 witness: with min_blob_size >= 1, a LAND pixel stays LAND next to a
\* pixel that is WATER in the final raster
C29_Witness ==
  /\ ws_pc = "written"
  /\ min_blob_size(ws_mpp) >= 1
  /\ \E p, q \in BlobCells :
       /\ Adjacent4(p, q)
       /\ ws_initial[p] = LAND_CLASS /\ ws_final[p] = LAND_CLASS
       /\ ws_final[q] = WATER_CLASS

---------------------------------------------------------------------------
(* SpecGrid: the accesses sar_martinis makes to large_tile_boxes, for every
   image size and tile size within the bounds *)

\* Image widths and heights 1 .. GridMaxExtent, tile sizes 1 .. GridMaxTile
GridMaxExtent == 6
GridMaxTile == 3
\* What a read outside a vector may yield as a size: 0 .. GridMaxGarbage
GridMaxGarbage == 1

\* An access v[index] to a vector of `size` elements
Access(vector, index, size) == [vector |-> vector, index |-> index, size |-> size]

InitGrid ==
  /\ gr_pc = "preprocessed"
  /\ gr_size \in [w : 1..GridMaxExtent, h : 1..GridMaxExtent]
  /\ gr_tile_size \in 1..GridMaxTile
  /\ gr_boxes = <<>>
  /\ gr_num_boxes = [x |-> 0, y |-> 0]
  /\ gr_kept = <<>>
  /\ gr_accesses = {}
  /\ KIOff /\ GTOff /\ SelOff /\ FzOff /\ TmOff /\ PipeOff /\ DzOff /\ DvOff /\ FlOff /\ BlOff /\ PrOff /\ ExOff /\ PaOff /\ MaOff /\ AxOff /\ WsOff

\* divide_roi(bounding_box(preprocessed_image), tile_size, large_tile_boxes,
\* false); num_boxes_y = large_tile_boxes.size(); num_boxes_x =
\* large_tile_boxes[0].size().  operator[] does not check its index: on a
\* vector without rows the read is undefined, and the run either crashes or
\* goes on with whatever it read.
GridDivideRoi ==
  /\ gr_pc = "preprocessed"
  /\ LET large_tile_boxes ==
           divide_roi(BBox2i(0, 0, gr_size.w, gr_size.h), gr_tile_size, FALSE).rois
         num_boxes_y == Len(large_tile_boxes)
     IN /\ gr_boxes' = large_tile_boxes
        /\ gr_accesses' = gr_accesses \cup {Access("large_tile_boxes", 0, num_boxes_y)}
        /\ IF num_boxes_y > 0
             THEN /\ gr_num_boxes' = [y |-> num_boxes_y, x |-> Len(large_tile_boxes[1])]
                  /\ gr_pc' = "divided"
             ELSE \/ /\ gr_pc' = "crashed"
                     /\ UNCHANGED gr_num_boxes
                  \/ /\ \E garbage \in 0..GridMaxGarbage :
                          gr_num_boxes' = [y |-> num_boxes_y, x |-> garbage]
                     /\ gr_pc' = "divided"
  /\ UNCHANGED <<gr_size, gr_tile_size, gr_kept,
                 kiVars, gtVars, selVars, fzVars, tmVars, pVars, dzVars, dvVars, flVars, blVars, prVars, exVars, paVars, maVars, axVars, wsVars>>

\* generate_tile_means and select_best_tiles: the selector keeps tiles of the
\* num_boxes_x x num_boxes_y tables (which ones depends on the pixels: any
\* one tile, or the first and the last), and throws LogicErr when no tile
\* passes its test, as it must when the tables have no cell
GridSelectBestTiles ==
  /\ gr_pc = "divided"
  /\ LET scan == ScanSeq(gr_num_boxes.x, gr_num_boxes.y)
     IN \/ /\ gr_pc' = "failed"
           /\ UNCHANGED gr_kept
        \/ /\ Len(scan) > 0
           /\ \E k \in 1..Len(scan) :
                gr_kept' \in {<<scan[k]>>, <<scan[1], scan[k]>>}
           /\ gr_pc' = "selected"
  /\ UNCHANGED <<gr_size, gr_tile_size, gr_boxes, gr_num_boxes, gr_accesses,
                 kiVars, gtVars, selVars, fzVars, tmVars, pVars, dzVars, dvVars, flVars, blVars, prVars, exVars, paVars, maVars, axVars, wsVars>>

\* compute_global_threshold: roi = large_tile_boxes[tile_index[1]][tile_index[0]]
\* for every kept tile
GridComputeGlobalThreshold ==
  /\ gr_pc = "selected"
  /\ gr_accesses' = gr_accesses
       \cup {Access("large_tile_boxes", gr_kept[i][2], Len(gr_boxes)) :
               i \in 1..Len(gr_kept)}
       \cup {Access("large_tile_boxes[row]", gr_kept[i][1],
                    IF gr_kept[i][2] < Len(gr_boxes)
                      THEN Len(gr_boxes[gr_kept[i][2] + 1]) ELSE 0) :
               i \in 1..Len(gr_kept)}
  /\ gr_pc' = "aggregated"
  /\ UNCHANGED <<gr_size, gr_tile_size, gr_boxes, gr_num_boxes, gr_kept,
                 kiVars, gtVars, selVars, fzVars, tmVars, pVars, dzVars, dvVars, flVars, blVars, prVars, exVars, paVars, maVars, axVars, wsVars>>

NextGrid == GridDivideRoi \/ GridSelectBestTiles \/ GridComputeGlobalThreshold

SpecGrid == InitGrid /\ [][NextGrid]_vars

\* C30: sar_martinis never reads an element of an empty tile grid: for every
\* image size, every access large_tile_boxes[0] and
\* large_tile_boxes[row][col] it makes has its index below the size of the
\* vector it reads.
C30_AccessesWithinBounds ==
  \A a \in gr_accesses : 0 <= a.index /\ a.index < a.size

=============================================================================
